---- MODULE Spec2Model ----
(***************************************************************************)
(* A model of the likey workspace: the literal substring search kernels    *)
(* (crate algos), and the LIKE compiler and matcher (crate like).          *)
(*                                                                         *)
(* Byte strings are sequences of byte values (0..255).  The source indexes *)
(* from 0; At(s, i) reads the byte at 0-based index i.  Option<usize> is   *)
(* modelled as a sequence: None is <<>>, Some(i) is <<i>>.                 *)
(***************************************************************************)
EXTENDS Integers, Sequences, FiniteSets

VARIABLES
    text,       \* search kernels: the haystack bytes
    pattern,    \* search kernels: the needle bytes
    call,       \* search kernels: the last kernel call, [op, ret]
    kernel,     \* find_all_bytes: the kernel whose find_bytes the default uses
    cursor,     \* find_all_bytes: local `cursor`
    results,    \* find_all_bytes: local `results`
    fa_pc,      \* find_all_bytes: position ("idle", "loop", "done")
    like_src,       \* LIKE: the pattern string given to the compiler
    like_options,   \* LIKE: the CompileOptions given to the compiler
    like_pattern,   \* LIKE: the compiled Pattern<S>, S being `kernel`
    like_text,      \* LIKE: the text given to like_match
    like_frame,     \* LIKE: like_match's locals, position and return value
    dataset,        \* engine: the Dataset, a sequence of tables of rows
    patterns,       \* engine: the compiled patterns handed to the executor
    exec,           \* engine: the executor's locals, position and result
    arena,          \* storage: the BumpArenaInner fields
    arena_log,      \* storage: the last call and the regions handed out
    fm_input,       \* FM-index: the arguments of FMIndex::new
    fm,             \* FM-index: the FMIndex fields
    fm_call,        \* FM-index: the last query, [op, pattern, ret]
    tri,            \* trigram index: the TrigramIndex fields
    tri_call,       \* trigram index: the last call, [op, arg, ret]
    load_input,     \* storage: what a loader is given and reads
    load_call       \* storage: the last loader call, [op, ret]

----------------------------------------------------------------------------
(* Bounds of the model.                                                    *)

MaxTextLen == 6
MaxPatLen == 3

(* The bytes the search inputs are drawn from: 'a', 'b', 'c'.              *)
SearchBytes == {97, 98, 99}

(* Inputs of the stepwise run of the default find_all_bytes.               *)
MaxFindAllTextLen == 4
MaxFindAllPatLen == 2
FindAllBytes == {97, 98}

(* Inputs of the LIKE compiler and matcher, counted in chars: the pattern  *)
(* chars are 'a', '%', '_' and the two-byte U+00E9; the text chars are     *)
(* 'a', '_' and U+00E9.                                                    *)
MaxLikePatChars == 4
MaxLikeTextChars == 4
LikePatChars == {<<97>>, <<37>>, <<95>>, <<195, 169>>}
LikeTextChars == {<<97>>, <<95>>, <<195, 169>>}
MaxFftCoreLen == 3
MaxFftPatLen == 3

----------------------------------------------------------------------------
(* Generic helpers.                                                        *)

None == <<>>
Some(i) == <<i>>

At(s, i) == s[i + 1]

(* s[from..] of the source. *)
slice_from_bytes(s, from) == SubSeq(s, from + 1, Len(s))

Max(a, b) == IF a >= b THEN a ELSE b

Min(a, b) == IF a <= b THEN a ELSE b

RECURSIVE SeqsUpTo(_, _)
SeqsUpTo(S, n) ==
    IF n = 0 THEN {<<>>}
    ELSE LET shorter == SeqsUpTo(S, n - 1)
         IN shorter \cup {Append(s, b) : s \in {t \in shorter : Len(t) = n - 1}, b \in S}

(* 0, 1, ..., n as a list: (0..=n).collect() *)
RangeInclusive(n) == [k \in 1..(n + 1) |-> k - 1]

----------------------------------------------------------------------------
(* What "occurs at" means, stated directly; the kernels are compared with  *)
(* these.                                                                  *)

OccursAt(t, p, i) ==
    /\ i + Len(p) <= Len(t)
    /\ \A j \in 0..(Len(p) - 1) : At(t, i + j) = At(p, j)

Occurrences(t, p) == {i \in 0..Len(t) : OccursAt(t, p, i)}

FirstOccurrence(t, p) ==
    IF Occurrences(t, p) = {} THEN None
    ELSE Some(CHOOSE i \in Occurrences(t, p) : \A k \in Occurrences(t, p) : i <= k)

StrictlyIncreasing(l) == \A k \in 1..(Len(l) - 1) : l[k] < l[k + 1]

ElementsOf(l) == {l[k] : k \in 1..Len(l)}

----------------------------------------------------------------------------
(* naive.rs                                                                *)

(* The inner `for j in 0..m` loop: TRUE when no byte differs. *)
RECURSIVE naive_matched(_, _, _, _)
naive_matched(t, p, i, j) ==
    IF j >= Len(p) THEN TRUE
    ELSE IF At(t, i + j) /= At(p, j) THEN FALSE
    ELSE naive_matched(t, p, i, j + 1)

(* The outer `for i in 0..=n - m` loop of naive_find_scalar. *)
RECURSIVE naive_find_loop(_, _, _)
naive_find_loop(t, p, i) ==
    IF i > Len(t) - Len(p) THEN None
    ELSE IF naive_matched(t, p, i, 0) THEN Some(i)
    ELSE naive_find_loop(t, p, i + 1)

naive_find_scalar(t, p) ==
    IF Len(p) = 0 THEN Some(0)
    ELSE IF Len(p) > Len(t) THEN None
    ELSE naive_find_loop(t, p, 0)

(* The outer loop of naive_find_all_scalar. *)
RECURSIVE naive_find_all_loop(_, _, _, _)
naive_find_all_loop(t, p, i, result) ==
    IF i > Len(t) - Len(p) THEN result
    ELSE naive_find_all_loop(t, p, i + 1,
            IF naive_matched(t, p, i, 0) THEN Append(result, i) ELSE result)

(* The `for i in 0..=n` loop taken for the empty pattern. *)
RECURSIVE naive_push_all(_, _, _)
naive_push_all(n, i, result) ==
    IF i > n THEN result ELSE naive_push_all(n, i + 1, Append(result, i))

naive_find_all_scalar(t, p) ==
    IF Len(p) = 0 THEN naive_push_all(Len(t), 0, <<>>)
    ELSE IF Len(p) > Len(t) THEN <<>>
    ELSE naive_find_all_loop(t, p, 0, <<>>)

----------------------------------------------------------------------------
(* kmp.rs                                                                  *)

(* The `while i < m` loop of build_lps; lps is 0-indexed in the source. *)
RECURSIVE build_lps_loop(_, _, _, _)
build_lps_loop(p, lps, len, i) ==
    IF i >= Len(p) THEN lps
    ELSE IF At(p, i) = At(p, len)
         THEN build_lps_loop(p, [lps EXCEPT ![i + 1] = len + 1], len + 1, i + 1)
    ELSE IF len /= 0
         THEN build_lps_loop(p, lps, At(lps, len - 1), i)
    ELSE build_lps_loop(p, [lps EXCEPT ![i + 1] = 0], len, i + 1)

build_lps(p) == build_lps_loop(p, [k \in 1..Len(p) |-> 0], 0, 1)

(* The `while i < n` loop of kmp_find. *)
RECURSIVE kmp_find_loop(_, _, _, _, _)
kmp_find_loop(t, p, lps, i, j) ==
    IF i >= Len(t) THEN None
    ELSE IF At(t, i) = At(p, j)
         THEN IF j + 1 = Len(p) THEN Some((i + 1) - (j + 1))
              ELSE kmp_find_loop(t, p, lps, i + 1, j + 1)
    ELSE IF j /= 0
         THEN kmp_find_loop(t, p, lps, i, At(lps, j - 1))
    ELSE kmp_find_loop(t, p, lps, i + 1, j)

(* kmp_find with the fallback on a mismatch restarting the pattern at 0
   instead of at lps[j - 1]. *)
kmp_find_restart(t, p) ==
    IF Len(p) = 0 THEN Some(0)
    ELSE IF Len(p) > Len(t) THEN None
    ELSE kmp_find_loop(t, p, [k \in 1..Len(p) |-> 0], 0, 0)

kmp_find(t, p) ==
    IF Len(p) = 0 THEN Some(0)
    ELSE IF Len(p) > Len(t) THEN None
    ELSE kmp_find_loop(t, p, build_lps(p), 0, 0)

(* The `while i < n` loop of kmp_find_all. *)
RECURSIVE kmp_find_all_loop(_, _, _, _, _, _)
kmp_find_all_loop(t, p, lps, i, j, result) ==
    IF i >= Len(t) THEN result
    ELSE IF At(t, i) = At(p, j)
         THEN IF j + 1 = Len(p)
              THEN kmp_find_all_loop(t, p, lps, i + 1, At(lps, j),
                                     Append(result, (i + 1) - (j + 1)))
              ELSE kmp_find_all_loop(t, p, lps, i + 1, j + 1, result)
    ELSE IF j /= 0
         THEN kmp_find_all_loop(t, p, lps, i, At(lps, j - 1), result)
    ELSE kmp_find_all_loop(t, p, lps, i + 1, j, result)

(* kmp_find_all with the other convention its comment names for the empty
   pattern: return no match. *)
kmp_find_all_empty_is_none(t, p) ==
    IF Len(p) = 0 THEN <<>>
    ELSE IF Len(p) > Len(t) THEN <<>>
    ELSE kmp_find_all_loop(t, p, build_lps(p), 0, 0, <<>>)

kmp_find_all(t, p) ==
    IF Len(p) = 0 THEN RangeInclusive(Len(t))
    ELSE IF Len(p) > Len(t) THEN <<>>
    ELSE kmp_find_all_loop(t, p, build_lps(p), 0, 0, <<>>)

----------------------------------------------------------------------------
(* bm.rs                                                                   *)

Put(s, i, v) == [s EXCEPT ![i + 1] = v]

(* TRUE, once v is computed: a loop tests it on the value it hands to its
   next iteration, so that the value is computed before the iteration. *)
Forced(v) == v = v

(* Returned by the search loops when the source would index the text
   outside [0, |text|), which panics. *)
OutOfBounds == <<-1>>

(* build_bad_char_table: last occurrence index per byte, -1 if absent. *)
RECURSIVE bad_char_loop(_, _, _)
bad_char_loop(p, table, i) ==
    IF i >= Len(p) THEN table
    ELSE bad_char_loop(p, [table EXCEPT ![At(p, i)] = i], i + 1)

build_bad_char_table(p) == bad_char_loop(p, [b \in 0..255 |-> -1], 0)

(* The inner `while j <= m && pattern[i - 1] != pattern[j - 1]` loop. *)
RECURSIVE good_suffix_inner(_, _, _, _, _)
good_suffix_inner(p, shift, border_pos, i, j) ==
    IF j <= Len(p) /\ At(p, i - 1) /= At(p, j - 1)
    THEN good_suffix_inner(p,
            IF At(shift, j) = 0 THEN Put(shift, j, j - i) ELSE shift,
            border_pos, i, At(border_pos, j))
    ELSE [shift |-> shift, j |-> j]

(* The outer `while i > 0` loop. *)
RECURSIVE good_suffix_outer(_, _, _, _, _)
good_suffix_outer(p, shift, border_pos, i, j) ==
    IF i > 0
    THEN LET r == good_suffix_inner(p, shift, border_pos, i, j)
         IN good_suffix_outer(p, r.shift, Put(border_pos, i - 1, r.j - 1),
                              i - 1, r.j - 1)
    ELSE [shift |-> shift, border_pos |-> border_pos]

(* The closing `for (i, value) in shift.iter_mut().enumerate()` loop. *)
RECURSIVE good_suffix_fill(_, _, _, _, _)
good_suffix_fill(m, shift, border_pos, i, j) ==
    IF i > m THEN shift
    ELSE good_suffix_fill(m,
            IF At(shift, i) = 0 THEN Put(shift, i, j) ELSE shift,
            border_pos, i + 1,
            IF i = j THEN At(border_pos, j) ELSE j)

build_good_suffix_table(p) ==
    LET m == Len(p)
        zeros == [k \in 1..(m + 1) |-> 0]
        r == good_suffix_outer(p, zeros, Put(zeros, m, m + 1), m, m + 1)
    IN good_suffix_fill(m, r.shift, r.border_pos, 0, At(r.border_pos, 0))

(* The inner `while j >= 0 && pattern[j] == text[i + j]` loop: the index of
   the mismatch, or -1 on a full match. *)
RECURSIVE bm_scan(_, _, _, _)
bm_scan(t, p, i, j) ==
    IF j >= 0 /\ At(p, j) = At(t, i + j) THEN bm_scan(t, p, i, j - 1) ELSE j

(* bc_shift of the source: mismatch_index - last_occurrence, or 1 when that
   is not positive. *)
bm_bc_shift(bad_char, mismatch_index, bad_byte) ==
    LET d == mismatch_index - bad_char[bad_byte]
    IN IF d > 0 THEN d ELSE 1

(* bm_shift with the good-suffix table read at mismatch_index instead of
   mismatch_index + 1. *)
bm_shift_gs_off_by_one(t, i, bad_char, good_suffix, mismatch_index) ==
    Max(bm_bc_shift(bad_char, mismatch_index, At(t, i + mismatch_index)),
        At(good_suffix, mismatch_index))

(* The shift after a mismatch at mismatch_index: bc_shift.max(gs_shift). *)
bm_shift(t, i, bad_char, good_suffix, mismatch_index) ==
    Max(bm_bc_shift(bad_char, mismatch_index, At(t, i + mismatch_index)),
        At(good_suffix, mismatch_index + 1))

(* The `while i <= n - m` loop of bm_find. *)
RECURSIVE bm_find_loop(_, _, _, _, _)
bm_find_loop(t, p, bad_char, good_suffix, i) ==
    IF i > Len(t) - Len(p) THEN None
    ELSE IF i + (Len(p) - 1) >= Len(t) THEN OutOfBounds
    ELSE LET j == bm_scan(t, p, i, Len(p) - 1)
         IN IF j < 0 THEN Some(i)
            ELSE bm_find_loop(t, p, bad_char, good_suffix,
                              i + bm_shift(t, i, bad_char, good_suffix, j))

bm_find(t, p) ==
    IF Len(p) = 0 THEN Some(0)
    ELSE IF Len(p) > Len(t) THEN None
    ELSE bm_find_loop(t, p, build_bad_char_table(p), build_good_suffix_table(p), 0)

(* The shift of bm_find_all after a full match, were it the pattern length. *)
bm_full_match_shift_whole(good_suffix, m) == m

(* The shift of bm_find_all after a full match: good_suffix[0]. *)
bm_full_match_shift(good_suffix, m) == At(good_suffix, 0)

(* The `while i <= n - m` loop of bm_find_all. *)
RECURSIVE bm_find_all_loop(_, _, _, _, _, _)
bm_find_all_loop(t, p, bad_char, good_suffix, i, res) ==
    IF i > Len(t) - Len(p) THEN res
    ELSE IF i + (Len(p) - 1) >= Len(t) THEN OutOfBounds
    ELSE LET j == bm_scan(t, p, i, Len(p) - 1)
         IN IF j < 0
            THEN bm_find_all_loop(t, p, bad_char, good_suffix,
                                  i + bm_full_match_shift(good_suffix, Len(p)),
                                  Append(res, i))
            ELSE bm_find_all_loop(t, p, bad_char, good_suffix,
                                  i + bm_shift(t, i, bad_char, good_suffix, j), res)

bm_find_all(t, p) ==
    IF Len(p) = 0 THEN RangeInclusive(Len(t))
    ELSE IF Len(p) > Len(t) THEN <<>>
    ELSE bm_find_all_loop(t, p, build_bad_char_table(p), build_good_suffix_table(p),
                          0, <<>>)

----------------------------------------------------------------------------
(* lib.rs (algos): the StringSearch trait                                  *)

(* The exact kernels: find_bytes looks for the bytes of the pattern. *)
Kernels == {"naive", "kmp", "bm"}

(* The kernels of fftstr.rs: the byte '_' of a pattern stands for any byte. *)
FftKernels == {"fftstr0", "fftstr1"}

(* The kernels like_match is instantiated with on this target
   (bench_like.rs, lines 103-178): NaiveScalar, KMP, BM, StdSearch (whose
   find_str is str::find), FftStr0 and FftStr1.  NaiveVectorized is run on
   aarch64 only (lines 110-127). *)
LikeKernels == Kernels \cup {"std"} \cup FftKernels

FftWildcard == 95

(* The pattern is at offset i of the text, the wildcard byte standing for
   any byte. *)
FftMatchAt(t, p, i) ==
    /\ i + Len(p) <= Len(t)
    /\ \A j \in 0..(Len(p) - 1) : At(p, j) = FftWildcard \/ At(t, i + j) = At(p, j)

FftFirstMatch(t, p) ==
    LET offsets == {i \in 0..Len(t) : FftMatchAt(t, p, i)}
    IN  IF offsets = {} THEN <<>>
        ELSE <<CHOOSE i \in offsets : \A k \in offsets : i <= k>>

FftAllWildcards(p) == \A k \in DOMAIN p : p[k] = FftWildcard

(* log2ceil(value): 64 - (value - 1).leading_zeros(). *)
RECURSIVE bit_length(_)
bit_length(v) == IF v = 0 THEN 0 ELSE 1 + bit_length(v \div 2)

log2ceil(value) == bit_length(value - 1)

FftPanic(message) == [panicked |-> TRUE, message |-> message]

(* The modulus of Value2, the field of FftStr1.  Value0, the field FftStr0
   takes for log2n < 7, has the modulus 2^32 + 1, and Value1, which it takes
   from log2n = 7 on, 2^64 + 1. *)
Value2_M == 2013265921

(* a + b in the field V, for a and b reduced.  The sums below stay under
   the moduli of Value0 and of Value1 for the patterns these fields are
   built on (at most 42 bytes). *)
FftAdd(V, a, b) ==
    IF V = "Value2" /\ a >= Value2_M - b THEN a - (Value2_M - b) ELSE a + b

(* The sum of f[lo..hi] in the field V. *)
RECURSIVE FftSum(_, _, _, _)
FftSum(V, f, lo, hi) ==
    IF lo > hi THEN 0
    ELSE IF lo = hi THEN (IF V = "Value2" THEN f[lo] % Value2_M ELSE f[lo])
    ELSE FftAdd(V, FftSum(V, f, lo, (lo + hi) \div 2),
                   FftSum(V, f, (lo + hi) \div 2 + 1, hi))

(* S::build for FftStr0 and FftStr1, by what find_bytes reads of it: the
   field, the transform size, and whether p0[pattern_size] is zero.
   ImplActual::new panics when OMEGA_POWER >> log2n is 0, which is Value1
   (OMEGA_POWER 128) from log2n = 8 on.  p0[pattern_size] is n times the sum
   of c * c over the active (non-wildcard) pattern bytes c; n is a unit of
   each field, so p0 is zero exactly when that sum is. *)
FftStr_build(S, p) ==
    LET required == Len(p) * 3
        log2n == log2ceil(required)
        V == IF S = "fftstr1" THEN "Value2"
             ELSE IF log2n < 7 THEN "Value0" ELSE "Value1"
    IN  IF required <= 1 THEN FftPanic("pattern size too small")
        ELSE IF (S = "fftstr0" /\ log2n >= 12) \/ (S = "fftstr1" /\ log2n > 27)
        THEN FftPanic("pattern too large for fft size")
        ELSE IF V = "Value1" /\ log2n > 7 THEN FftPanic("invalid fft parameters")
        ELSE [panicked |-> FALSE, V |-> V, log2n |-> log2n, pattern_size |-> Len(p),
              p0_is_zero |->
                  FftSum(V, [k \in 1..Len(p) |->
                                IF p[k] = FftWildcard THEN 0 ELSE p[k] * p[k]],
                         1, Len(p)) = 0]

(* lhs == rhs of ImplActual::iterate at offset j of the text.  The two
   products of compute are n times the sums, over the active pattern bytes
   c against the text bytes t under them, of t * t and of c * t; lhs is
   t1 - 2 * t2 reduced and rhs is M - p0 unreduced, so they are equal when
   p0 is not zero and the sum of (t - c)^2 is zero in the field. *)
FftHitAt(state, p, t, j) ==
    /\ ~state.p0_is_zero
    /\ FftSum(state.V, [k \in 1..Len(p) |->
                           IF p[k] = FftWildcard THEN 0
                           ELSE (At(t, j + k - 1) - p[k]) * (At(t, j + k - 1) - p[k])],
              1, Len(p)) = 0

(* ImplActual::find_first on the state of a build that returned: the first
   offset iterate reports.  This is the value of FftStr0_find_bytes and
   FftStr1_find_bytes, the line by line translation with the transforms
   over big numbers, for Value0 and Value2 (SpecFft, FftFindBytesByValue).
   Value1 multiplies wrongly when one factor is 2^64 (Value1_mul), its
   transform is not the convolution, and find_first on it has no value
   here: FftStr0 on a pattern of 22 to 42 bytes is FftStr0_find_bytes
   only. *)
FftStr_find_first(state, p, t) ==
    LET hits == {j \in 0..(Len(t) - Len(p)) : FftHitAt(state, p, t, j)}
    IN  CASE state.V \in {"Value0", "Value2"} ->
               IF Len(t) < state.pattern_size \/ hits = {} THEN None
               ELSE Some(CHOOSE j \in hits : \A k \in hits : j <= k)

(* find_bytes of FftStr0 and of FftStr1 on the state built from the config. *)
FftStr_find_bytes(S, p, t) == FftStr_find_first(FftStr_build(S, p), p, t)

(* S::build(&config): the unit state of the exact kernels and of StdSearch,
   the state of an FFT kernel, or its panic. *)
build(S, config) == IF S \in FftKernels THEN FftStr_build(S, config) ELSE <<>>

build_panics(S, config) == S \in FftKernels /\ FftStr_build(S, config).panicked

(* S::find_bytes for the kernel S; the pattern is the kernel's config. *)
find_bytes(S, p, t) ==
    CASE S = "naive" -> naive_find_scalar(t, p)
      [] S = "kmp" -> kmp_find(t, p)
      [] S = "bm" -> bm_find(t, p)
      [] S \in FftKernels -> FftStr_find_bytes(S, p, t)

(* The trait's default find_str: find_bytes on text.as_bytes(); StdSearch
   overrides it with text.find(config), str::find. *)
find_str(S, p, t) == IF S = "std" THEN FirstOccurrence(t, p) ELSE find_bytes(S, p, t)

(* One iteration of the `while cursor <= len` loop of the default
   find_all_bytes, with the cursor moved past the whole match. *)
find_all_bytes_step_no_overlap(S, p, t, cur, res) ==
    LET found == find_bytes(S, p, slice_from_bytes(t, cur))
    IN IF found /= None
       THEN [results |-> Append(res, cur + found[1]),
             cursor |-> cur + found[1] + Max(Len(p), 1),
             pc |-> "loop"]
       ELSE [results |-> res, cursor |-> cur, pc |-> "done"]

(* One iteration of the `while cursor <= len` loop of the default
   find_all_bytes: a hit is pushed and the cursor moves one byte past it;
   a miss breaks out of the loop. *)
find_all_bytes_step(S, p, t, cur, res) ==
    LET found == find_bytes(S, p, slice_from_bytes(t, cur))
    IN IF found /= None
       THEN [results |-> Append(res, cur + found[1]),
             cursor |-> cur + found[1] + 1,
             pc |-> "loop"]
       ELSE [results |-> res, cursor |-> cur, pc |-> "done"]

(* The `while cursor <= len` loop of the default find_all_bytes. *)
RECURSIVE find_all_bytes_loop(_, _, _, _, _)
find_all_bytes_loop(S, p, t, cur, res) ==
    IF cur > Len(t) THEN res
    ELSE LET r == find_all_bytes_step(S, p, t, cur, res)
         IN IF r.pc = "done" THEN r.results
            ELSE find_all_bytes_loop(S, p, t, r.cursor, r.results)

find_all_bytes(S, p, t) == find_all_bytes_loop(S, p, t, 0, <<>>)

----------------------------------------------------------------------------
(* lib.rs (like): tokens and the compiler                                  *)

PERCENT == 37
UNDERSCORE == 95

(* c.len_utf8() of the char whose first byte is lead. *)
utf8_char_width(lead) ==
    IF lead < 128 THEN 1
    ELSE IF lead < 224 THEN 2
    ELSE IF lead < 240 THEN 3
    ELSE 4

(* enum Token: Literal(&str), Skip(usize), Any. *)
Literal(lit) == [kind |-> "Literal", lit |-> lit, count |-> 0]
Skip(n) == [kind |-> "Skip", lit |-> <<>>, count |-> n]
Any == [kind |-> "Any", lit |-> <<>>, count |-> 0]

(* struct CompileOptions and its Default. *)
CompileOptions(tul, luw) ==
    [treat_underscore_as_literal |-> tul, literal_underscore_is_wildcard |-> luw]

DefaultOptions == CompileOptions(FALSE, FALSE)

(* tokens.last() as an Option. *)
last_token(tokens) == IF Len(tokens) = 0 THEN None ELSE Some(tokens[Len(tokens)])

(* is_wildcard, were '_' a wildcard whatever the options say. *)
is_wildcard_always(c, options) == c = PERCENT \/ c = UNDERSCORE

(* let is_wildcard = c == '%' || (c == '_' && !options.treat_underscore_as_literal) *)
is_wildcard(c, options) ==
    c = PERCENT \/ (c = UNDERSCORE /\ ~options.treat_underscore_as_literal)

(* push_literal without the update of min_len. *)
push_literal_min_len_kept(S, st, lit) ==
    IF build_panics(S, lit) THEN [st EXCEPT !.panicked = TRUE]
    ELSE [st EXCEPT !.tokens = Append(@, Literal(lit)),
                    !.literal_configs = Append(@, lit),
                    !.literal_states = Append(@, build(S, lit))]

(* The compiler's locals after pushing the literal lit: the token, its
   kernel config (the literal bytes; FftConfig::from_str adds the wildcard
   byte '_', FftWildcard), the state S::build makes of the config, and
   min_len += lit.len().  A panic of S::build leaves the compiler. *)
push_literal(S, st, lit) ==
    IF build_panics(S, lit) THEN [st EXCEPT !.panicked = TRUE]
    ELSE [st EXCEPT !.tokens = Append(@, Literal(lit)),
                    !.literal_configs = Append(@, lit),
                    !.literal_states = Append(@, build(S, lit)),
                    !.min_len = @ + Len(lit)]

(* The '%' branch without the test of the last token. *)
push_any_always(tokens) == Append(tokens, Any)

(* The '%' branch: push Any unless the last token is Any. *)
push_any(tokens) ==
    IF last_token(tokens) /= Some(Any) THEN Append(tokens, Any) ELSE tokens

(* The '_' branch: bump the last token when it is a Skip, else push Skip(1). *)
push_skip(tokens) ==
    IF Len(tokens) > 0 /\ tokens[Len(tokens)].kind = "Skip"
    THEN [tokens EXCEPT ![Len(tokens)].count = @ + 1]
    ELSE Append(tokens, Skip(1))

(* The `for (idx, c) in pattern.char_indices()` loop; '%' and '_' are
   one-byte chars, so the first byte of a char decides the branch. *)
RECURSIVE compile_loop(_, _, _, _)
compile_loop(S, p, options, st) ==
    IF st.panicked \/ st.idx >= Len(p) THEN st
    ELSE LET idx == st.idx
             c == At(p, idx)
             next == idx + utf8_char_width(c)
         IN IF is_wildcard(c, options)
            THEN LET flushed == IF idx > st.start_idx
                                THEN push_literal(S, st, SubSeq(p, st.start_idx + 1, idx))
                                ELSE st
                 IN compile_loop(S, p, options,
                        [flushed EXCEPT
                            !.tokens = IF c = PERCENT THEN push_any(@) ELSE push_skip(@),
                            !.min_len = IF c = PERCENT THEN @ ELSE @ + 1,
                            !.start_idx = next,
                            !.idx = next])
            ELSE compile_loop(S, p, options, [st EXCEPT !.idx = next])

(* The result of a compile that panics: on inconsistent options, or in
   S::build. *)
CompilePanic ==
    [panicked |-> TRUE, tokens |-> <<>>, min_len |-> 0, literal_configs |-> <<>>,
     literal_states |-> <<>>, literal_underscore_is_wildcard |-> FALSE]

(* struct Pattern<S>, as compile_pattern_with_options::<S> builds it. *)
compile_pattern_with_options(S, p, options) ==
    IF options.literal_underscore_is_wildcard /\ ~options.treat_underscore_as_literal
    THEN CompilePanic
    ELSE LET pattern_of(fin) ==
                 IF fin.panicked THEN CompilePanic
                 ELSE [panicked |-> FALSE,
                       tokens |-> fin.tokens,
                       min_len |-> fin.min_len,
                       literal_configs |-> fin.literal_configs,
                       literal_states |-> fin.literal_states,
                       literal_underscore_is_wildcard |->
                           options.literal_underscore_is_wildcard]
             last_literal(st) ==
                 IF ~st.panicked /\ st.start_idx < Len(p)
                 THEN push_literal(S, st, slice_from_bytes(p, st.start_idx))
                 ELSE st
         IN pattern_of(last_literal(compile_loop(S, p, options,
                [idx |-> 0, start_idx |-> 0, tokens |-> <<>>,
                 literal_configs |-> <<>>, literal_states |-> <<>>,
                 min_len |-> 0, panicked |-> FALSE])))

compile_pattern(S, p) == compile_pattern_with_options(S, p, DefaultOptions)

----------------------------------------------------------------------------
(* lib.rs (like): the matcher                                              *)

(* slice_from(text, idx): text[idx..]. *)
slice_from(t, idx) == SubSeq(t, idx + 1, Len(t))

(* str::starts_with. *)
starts_with(t, lit) == Len(lit) <= Len(t) /\ SubSeq(t, 1, Len(lit)) = lit

(* lit.as_bytes().contains(&b'_'). *)
contains_underscore(lit) == \E k \in 1..Len(lit) : lit[k] = UNDERSCORE

(* literal_matches_at, were the literal looked for anywhere in the rest of
   the text instead of at its start. *)
literal_matches_at_anywhere(pat, S, lit, t, idx, state_idx) ==
    find_str(S, lit, slice_from(t, idx)) /= None

(* literal_matches_at for Pattern<S>: the kernel's find_str must hit at 0
   when '_' inside literals is a wildcard and lit has one, else starts_with. *)
literal_matches_at(pat, S, lit, t, idx, state_idx) ==
    IF pat.literal_underscore_is_wildcard /\ contains_underscore(lit)
    THEN find_str(S, At(pat.literal_configs, state_idx), slice_from(t, idx)) = Some(0)
    ELSE starts_with(slice_from(t, idx), lit)

(* like_match's locals as declared at lines 165-172. *)
InitialFrame ==
    [pc |-> "loop", result |-> FALSE,
     t_idx |-> 0, s_idx |-> 0, state_idx |-> 0,
     last_wildcard_t_idx |-> None, last_wildcard_state_idx |-> 0,
     match_s_idx |-> 0]

(* `return b`. *)
Return(f, b) == [f EXCEPT !.pc = "done", !.result = b]

(* An index into literal_configs / literal_states that is out of bounds. *)
Panic(f) == [f EXCEPT !.pc = "panic", !.result = FALSE]

(* The anchored prefix check, were state_idx left at 0 after the first
   literal. *)
like_match_prefix_state_idx_kept(pat, S, t, f) ==
    LET tokens == pat.tokens
    IN IF Len(tokens) > 0 /\ tokens[1] /= Any /\ tokens[1].kind = "Literal"
          /\ tokens[1].lit /= <<>>
       THEN IF ~literal_matches_at(pat, S, tokens[1].lit, t, 0, 0)
            THEN Return(f, FALSE)
            ELSE [f EXCEPT !.s_idx = Len(tokens[1].lit), !.t_idx = 1]
       ELSE f

(* The anchored prefix check, lines 174-185. *)
like_match_prefix(pat, S, t, f) ==
    LET tokens == pat.tokens
    IN IF Len(tokens) > 0 /\ tokens[1] /= Any /\ tokens[1].kind = "Literal"
          /\ tokens[1].lit /= <<>>
       THEN IF ~literal_matches_at(pat, S, tokens[1].lit, t, 0, 0)
            THEN Return(f, FALSE)
            ELSE [f EXCEPT !.s_idx = Len(tokens[1].lit), !.t_idx = 1, !.state_idx = 1]
       ELSE f

(* The anchored suffix check, lines 187-204. *)
like_match_suffix(pat, S, t, f) ==
    LET tokens == pat.tokens
        last == tokens[Len(tokens)]
        last_state_idx == Max(Len(pat.literal_configs) - 1, 0)
    IN IF Len(tokens) > 0 /\ last /= Any /\ last.kind = "Literal" /\ last.lit /= <<>>
       THEN IF Len(t) < Len(last.lit)
               \/ ~literal_matches_at(pat, S, last.lit, t, Len(t) - Len(last.lit),
                                      last_state_idx)
            THEN Return(f, FALSE)
            ELSE f
       ELSE f

(* like_match up to the main loop, lines 158-204. *)
like_match_begin(pat, S, t) ==
    IF Len(t) < pat.min_len THEN Return(InitialFrame, FALSE)
    ELSE LET f == like_match_prefix(pat, S, t, InitialFrame)
         IN IF f.pc = "done" THEN f ELSE like_match_suffix(pat, S, t, f)

(* The `while met < count` loop of the Skip branch: chars().next() yields
   the char at pos while pos is inside the text.  A pattern with a Skip
   token has its literals matched byte for byte (no Skip is made when
   treat_underscore_as_literal is set, which literal_underscore_is_wildcard
   requires), so pos is the first byte of a char. *)
RECURSIVE skip_chars(_, _, _, _, _)
skip_chars(t, pos, count, met, advanced) ==
    IF met < count /\ pos + advanced < Len(t)
    THEN skip_chars(t, pos, count, met + 1,
                    advanced + utf8_char_width(At(t, pos + advanced)))
    ELSE [met |-> met, advanced |-> advanced]

(* The smart jump of the Any branch, lines 240-254. *)
smart_jump(pat, S, t, f) ==
    IF f.state_idx >= Len(pat.literal_configs) THEN Panic(f)
    ELSE LET found == find_str(S, At(pat.literal_configs, f.state_idx),
                               slice_from(t, f.s_idx))
         IN IF found /= None
            THEN [f EXCEPT !.match_s_idx = f.s_idx + found[1],
                           !.s_idx = f.s_idx + found[1],
                           !.t_idx = @ + 1]
            ELSE Return(f, FALSE)

(* The token match of one loop iteration, lines 207-261; pc "backtrack"
   when control falls through to the backtracking code. *)
like_match_forward(pat, S, t, f) ==
    LET tokens == pat.tokens
        fall == [f EXCEPT !.pc = "backtrack"]
    IN IF f.t_idx < Len(tokens)
       THEN LET tok == At(tokens, f.t_idx)
            IN CASE tok.kind = "Literal" ->
                      IF literal_matches_at(pat, S, tok.lit, t, f.s_idx, f.state_idx)
                      THEN [f EXCEPT !.s_idx = @ + Len(tok.lit),
                                     !.t_idx = @ + 1,
                                     !.state_idx = @ + 1]
                      ELSE fall
                 [] tok.kind = "Skip" ->
                      LET r == skip_chars(t, f.s_idx, tok.count, 0, 0)
                      IN IF r.met = tok.count
                         THEN [f EXCEPT !.s_idx = @ + r.advanced, !.t_idx = @ + 1]
                         ELSE fall
                 [] tok.kind = "Any" ->
                      LET g == [f EXCEPT !.last_wildcard_t_idx = Some(f.t_idx),
                                         !.last_wildcard_state_idx = f.state_idx]
                      IN IF f.t_idx + 1 < Len(tokens)
                            /\ At(tokens, f.t_idx + 1).kind = "Literal"
                         THEN smart_jump(pat, S, t, g)
                         ELSE [g EXCEPT !.t_idx = @ + 1, !.match_s_idx = f.s_idx]
       ELSE fall

(* A byte chars().next() reads after the first, by the bits
   utf8_acc_cont_byte keeps of it (byte & 0x3F).  A read past the end of
   the text (unwrap_unchecked on None) is undefined: any byte. *)
cont_bits(t, pos) == IF pos < Len(t) THEN {At(t, pos) % 64} ELSE 0..63

(* The code points chars().next() can decode at pos < text.len()
   (core::str::next_code_point): one, unless it reads past the end. *)
next_code_point(t, pos) ==
    LET x == At(t, pos)
        init == x % 32
    IN  IF x < 128 THEN {x}
        ELSE IF x < 224
        THEN {init * 64 + y : y \in cont_bits(t, pos + 1)}
        ELSE IF x < 240
        THEN {init * 4096 + y * 64 + z :
                 y \in cont_bits(t, pos + 1), z \in cont_bits(t, pos + 2)}
        ELSE {(init % 8) * 262144 + y * 4096 + z * 64 + w :
                 y \in cont_bits(t, pos + 1), z \in cont_bits(t, pos + 2),
                 w \in cont_bits(t, pos + 3)}

(* char::len_utf8 of a code point. *)
len_utf8(code) ==
    IF code < 128 THEN 1
    ELSE IF code < 2048 THEN 2
    ELSE IF code < 65536 THEN 3
    ELSE 4

(* chars().next() at pos reads past the end of the text: the first byte
   there asks for more bytes than the text has left. *)
reads_past_end(t, pos) == pos + utf8_char_width(At(t, pos)) > Len(t)

(* search_start of the smart jump backtracking, were the search resumed
   where the scan stopped. *)
backtrack_search_start_at_scan(f) == f.s_idx

(* let search_start = match_s_idx + 1 *)
backtrack_search_start(f) == f.match_s_idx + 1

(* The backtracking of one loop iteration, were the dumb backtracking to
   retry at match_s_idx without advancing it. *)
like_match_backtrack_dumb_stays(pat, S, t, f) ==
    IF f.last_wildcard_t_idx /= None
    THEN LET g == [f EXCEPT !.t_idx = f.last_wildcard_t_idx[1] + 1,
                            !.state_idx = f.last_wildcard_state_idx]
         IN IF g.t_idx < Len(pat.tokens) /\ At(pat.tokens, g.t_idx).kind = "Literal"
            THEN LET search_start == backtrack_search_start(g)
                 IN IF search_start >= Len(t) THEN Return(g, FALSE)
                    ELSE IF g.state_idx >= Len(pat.literal_configs) THEN Panic(g)
                    ELSE LET found == find_str(S, At(pat.literal_configs, g.state_idx),
                                               slice_from(t, search_start))
                         IN IF found /= None
                            THEN [g EXCEPT !.match_s_idx = search_start + found[1],
                                           !.s_idx = search_start + found[1]]
                            ELSE Return(g, FALSE)
            ELSE IF g.match_s_idx < Len(t)
                 THEN [g EXCEPT !.s_idx = g.match_s_idx]
                 ELSE Return(g, FALSE)
    ELSE Return(f, FALSE)

(* The backtracking of one loop iteration, lines 263-297.  The dumb
   backtracking moves match_s_idx by c.len_utf8() of the char chars().next()
   decodes at match_s_idx, which is inside a char when an FFT kernel has
   matched a '_' of a literal against the first byte of a longer char; pc
   "ub" when the decoding reads past the end of the text. *)
like_match_backtrack(pat, S, t, f) ==
    IF f.last_wildcard_t_idx /= None
    THEN LET g == [f EXCEPT !.t_idx = f.last_wildcard_t_idx[1] + 1,
                            !.state_idx = f.last_wildcard_state_idx]
         IN IF g.t_idx < Len(pat.tokens) /\ At(pat.tokens, g.t_idx).kind = "Literal"
            THEN LET search_start == backtrack_search_start(g)
                 IN IF search_start >= Len(t) THEN Return(g, FALSE)
                    ELSE IF g.state_idx >= Len(pat.literal_configs) THEN Panic(g)
                    ELSE LET found == find_str(S, At(pat.literal_configs, g.state_idx),
                                               slice_from(t, search_start))
                         IN IF found /= None
                            THEN [g EXCEPT !.match_s_idx = search_start + found[1],
                                           !.s_idx = search_start + found[1]]
                            ELSE Return(g, FALSE)
            ELSE IF g.match_s_idx < Len(t)
                 THEN IF reads_past_end(t, g.match_s_idx)
                      THEN [g EXCEPT !.pc = "ub"]
                      ELSE LET c == CHOOSE code \in next_code_point(t, g.match_s_idx) : TRUE
                               next == g.match_s_idx + len_utf8(c)
                           IN [g EXCEPT !.match_s_idx = next, !.s_idx = next]
                 ELSE Return(g, FALSE)
    ELSE Return(f, FALSE)

(* The dumb backtracking when chars().next() reads past the end of the
   text: the frames a build can go on with, one for each char the bytes
   found there can decode to.  The other outcome is that the process is
   aborted (the unsafe precondition check of a build with debug
   assertions). *)
like_match_backtrack_past_end(t, f) ==
    {[f EXCEPT !.pc = "loop",
               !.match_s_idx = f.match_s_idx + len_utf8(c),
               !.s_idx = f.match_s_idx + len_utf8(c)] :
        c \in next_code_point(t, f.match_s_idx)}

(* The process is aborted inside like_match. *)
Abort(f) == [f EXCEPT !.pc = "abort", !.result = FALSE]

(* One iteration of `while s_idx < text.len()`, lines 206-298. *)
like_match_step(pat, S, t, f) ==
    LET g == like_match_forward(pat, S, t, f)
    IN IF g.pc = "backtrack"
       THEN like_match_backtrack(pat, S, t, [g EXCEPT !.pc = "loop"])
       ELSE g

(* The closing `while t_idx < tokens.len()` loop, lines 300-308. *)
RECURSIVE like_match_tail(_, _)
like_match_tail(pat, f) ==
    IF f.t_idx < Len(pat.tokens)
    THEN IF At(pat.tokens, f.t_idx) = Any
         THEN like_match_tail(pat, [f EXCEPT !.t_idx = @ + 1])
         ELSE Return(f, FALSE)
    ELSE Return(f, TRUE)

(* The main loop run to its end. *)
RECURSIVE like_match_loop(_, _, _, _)
like_match_loop(pat, S, t, f) ==
    IF f.pc /= "loop" THEN f
    ELSE IF f.s_idx < Len(t) THEN like_match_loop(pat, S, t, like_match_step(pat, S, t, f))
    ELSE like_match_tail(pat, f)

(* like_match::<S>(pattern, text), run to its end; it has no value when
   the call runs into the read past the end of the text. *)
like_match(pat, S, t) ==
    LET returned(f) == CASE f.pc /= "ub" -> f.result
    IN  returned(like_match_loop(pat, S, t, like_match_begin(pat, S, t)))

----------------------------------------------------------------------------
(* The search kernels as a state machine: an input pair is fixed, then one *)
(* kernel function is called on it (SpecSearch), or the trait's default    *)
(* find_all_bytes runs its loop one iteration per step (SpecFindAll).      *)

vars == <<text, pattern, call, kernel, cursor, results, fa_pc,
          like_src, like_options, like_pattern, like_text, like_frame,
          dataset, patterns, exec, arena, arena_log,
          fm_input, fm, fm_call, tri, tri_call, load_input, load_call>>

NoCall == [op |-> "idle", ret |-> <<>>]

engineVars == <<dataset, patterns, exec>>
arenaVars == <<arena, arena_log, load_input, load_call>>
fmVars == <<fm_input, fm, fm_call>>
triVars == <<tri, tri_call>>
extVars == <<engineVars, arenaVars, fmVars, triVars>>

(* No dataset loaded, nothing executed. *)
ExecIdle == [op |-> "idle", pc |-> "idle", pattern_index |-> 0,
             table |-> 0, row |-> 0, matches |-> <<>>]

EngineIdle ==
    /\ dataset = <<>>
    /\ patterns = <<>>
    /\ exec = ExecIdle

(* No arena constructed. *)
NoArena == [start |-> 0, ptr |-> 0, end |-> 0, total_size |-> 0]

NoArenaLog == [op |-> "idle", outcome |-> "idle", size |-> 0, align |-> 1,
               addr |-> 0, before |-> 0, regions |-> <<>>, first |-> <<>>,
               reset_seen |-> FALSE]

(* No loader called. *)
NoLoadInput == [kind |-> "none"]

LoadIdle ==
    /\ load_input = NoLoadInput
    /\ load_call = NoCall

ArenaIdle ==
    /\ arena = NoArena
    /\ arena_log = NoArenaLog
    /\ LoadIdle

(* No FM-index built. *)
NoFmInput == [text |-> <<>>, sentinel |-> 0, separator |-> <<>>]

NoFm == [built |-> "no"]

FmIdle ==
    /\ fm_input = NoFmInput
    /\ fm = NoFm
    /\ fm_call = NoCall

(* TrigramIndex::new(): no document, no posting list. *)
EmptyTrigramIndex == [index |-> <<>>, documents |-> <<>>]

TriIdle ==
    /\ tri = EmptyTrigramIndex
    /\ tri_call = NoCall

ExtIdle == EngineIdle /\ ArenaIdle /\ FmIdle /\ TriIdle

SearchIdle ==
    /\ call = NoCall
    /\ cursor = 0
    /\ results = <<>>
    /\ fa_pc = "idle"

(* Nothing compiled or matched yet. *)
NotCompiled == [CompilePanic EXCEPT !.panicked = FALSE, !.min_len = -1]

IdleFrame == [InitialFrame EXCEPT !.pc = "idle"]

LikeIdle ==
    /\ like_src = <<>>
    /\ like_options = DefaultOptions
    /\ like_pattern = NotCompiled
    /\ like_text = <<>>
    /\ like_frame = IdleFrame

likeVars == <<like_src, like_options, like_pattern, like_text, like_frame>>

InitSearch ==
    /\ text \in SeqsUpTo(SearchBytes, MaxTextLen)
    /\ pattern \in SeqsUpTo(SearchBytes, MaxPatLen)
    /\ kernel = "naive"
    /\ SearchIdle
    /\ LikeIdle
    /\ ExtIdle

CanCall == call.op = "idle" /\ fa_pc = "idle"

Returned(op, ret) ==
    /\ call' = [op |-> op, ret |-> ret]
    /\ UNCHANGED <<text, pattern, kernel, cursor, results, fa_pc, likeVars, extVars>>

Call_naive_find_scalar ==
    CanCall /\ Returned("naive_find_scalar", naive_find_scalar(text, pattern))

Call_kmp_find ==
    CanCall /\ Returned("kmp_find", kmp_find(text, pattern))

Call_bm_find ==
    CanCall /\ Returned("bm_find", bm_find(text, pattern))

Call_naive_find_all_scalar ==
    CanCall /\ Returned("naive_find_all_scalar", naive_find_all_scalar(text, pattern))

Call_kmp_find_all ==
    CanCall /\ Returned("kmp_find_all", kmp_find_all(text, pattern))

Call_bm_find_all ==
    CanCall /\ Returned("bm_find_all", bm_find_all(text, pattern))

Call_find_all_bytes ==
    /\ CanCall
    /\ \E S \in Kernels :
          /\ kernel' = S
          /\ call' = [op |-> "find_all_bytes", ret |-> find_all_bytes(S, pattern, text)]
    /\ UNCHANGED <<text, pattern, cursor, results, fa_pc, likeVars, extVars>>

NextSearch ==
    \/ Call_naive_find_scalar
    \/ Call_kmp_find
    \/ Call_bm_find
    \/ Call_naive_find_all_scalar
    \/ Call_kmp_find_all
    \/ Call_bm_find_all
    \/ Call_find_all_bytes

SpecSearch == InitSearch /\ [][NextSearch]_vars

InitFindAll ==
    /\ text \in SeqsUpTo(FindAllBytes, MaxFindAllTextLen)
    /\ pattern \in SeqsUpTo(FindAllBytes, MaxFindAllPatLen)
    /\ kernel = "naive"
    /\ SearchIdle
    /\ LikeIdle
    /\ ExtIdle

(* Entry of find_all_bytes for the kernel S: results empty, cursor 0. *)
FindAllEnter ==
    /\ CanCall
    /\ \E S \in Kernels : kernel' = S
    /\ cursor' = 0
    /\ results' = <<>>
    /\ fa_pc' = "loop"
    /\ UNCHANGED <<text, pattern, call, likeVars, extVars>>

(* One iteration of the loop, taken while cursor <= len. *)
FindAllIter ==
    /\ fa_pc = "loop"
    /\ cursor <= Len(text)
    /\ LET r == find_all_bytes_step(kernel, pattern, text, cursor, results)
       IN /\ results' = r.results
          /\ cursor' = r.cursor
          /\ fa_pc' = r.pc
    /\ UNCHANGED <<text, pattern, call, kernel, likeVars, extVars>>

(* The loop condition fails: cursor > len. *)
FindAllExit ==
    /\ fa_pc = "loop"
    /\ cursor > Len(text)
    /\ fa_pc' = "done"
    /\ UNCHANGED <<text, pattern, call, kernel, cursor, results, likeVars, extVars>>

NextFindAll ==
    \/ FindAllEnter
    \/ FindAllIter
    \/ FindAllExit

(* find_all_bytes is a synchronous loop: once entered it keeps running. *)
SpecFindAll == InitFindAll /\ [][NextFindAll]_vars /\ WF_vars(FindAllIter \/ FindAllExit)

----------------------------------------------------------------------------
(* The LIKE compiler and matcher as a state machine: a pattern string,     *)
(* options and a kernel are fixed; the pattern is compiled; like_match is  *)
(* entered on a text and runs its main loop one iteration per step.        *)

RECURSIVE Concat(_)
Concat(ss) == IF Len(ss) = 0 THEN <<>> ELSE Head(ss) \o Concat(Tail(ss))

(* The UTF-8 strings of at most n chars drawn from chars. *)
Utf8Strings(chars, n) == {Concat(cs) : cs \in SeqsUpTo(chars, n)}

AllOptions == {CompileOptions(tul, luw) : tul \in BOOLEAN, luw \in BOOLEAN}

(* The pattern strings, the texts and the options of a kernel S.  The FFT
   kernels get short literals over a and the wildcard byte, texts over a,
   b and a two-byte char, and the options they are run with
   (bench_like.rs, lines 152-178): '_' kept in the literal and taken as
   the kernel's wildcard. *)
LikeFftPatChars == {<<97>>, <<37>>, <<95>>}

LikeFftTextChars == {<<97>>, <<98>>, <<195, 169>>}

LikeSources(S) ==
    IF S \in FftKernels THEN Utf8Strings(LikeFftPatChars, MaxFftPatLen)
    ELSE Utf8Strings(LikePatChars, MaxLikePatChars)

LikeTexts(S) ==
    IF S \in FftKernels THEN Utf8Strings(LikeFftTextChars, MaxFftCoreLen)
    ELSE Utf8Strings(LikeTextChars, MaxLikeTextChars)

LikeOptions(S) ==
    IF S \in FftKernels THEN {CompileOptions(TRUE, TRUE)} ELSE AllOptions

searchVars == <<text, pattern, call, cursor, results, fa_pc>>

InitLike ==
    /\ kernel \in LikeKernels
    /\ like_src \in LikeSources(kernel)
    /\ like_options \in LikeOptions(kernel)
    /\ like_pattern = NotCompiled
    /\ like_text = <<>>
    /\ like_frame = IdleFrame
    /\ text = <<>>
    /\ pattern = <<>>
    /\ SearchIdle
    /\ ExtIdle

(* compile_pattern_with_options::<S>(pattern, (), |_, pat| pat.as_bytes(), options) *)
Compile ==
    /\ like_pattern = NotCompiled
    /\ like_pattern' = compile_pattern_with_options(kernel, like_src, like_options)
    /\ UNCHANGED <<like_src, like_options, like_text, like_frame, kernel, searchVars, extVars>>

(* like_match is entered on a text: the length test and the two anchored
   checks. *)
LikeMatchBegin ==
    /\ like_pattern /= NotCompiled
    /\ ~like_pattern.panicked
    /\ like_frame.pc = "idle"
    /\ \E t \in LikeTexts(kernel) :
          /\ like_text' = t
          /\ like_frame' = like_match_begin(like_pattern, kernel, t)
    /\ UNCHANGED <<like_src, like_options, like_pattern, kernel, searchVars, extVars>>

(* One iteration of the main loop.  When its dumb backtracking reads past
   the end of the text, the process is aborted or the loop goes on from
   where the decoded char ends. *)
LikeMatchStep ==
    /\ like_frame.pc = "loop"
    /\ like_frame.s_idx < Len(like_text)
    /\ LET outcomes(g) ==
               IF g.pc = "ub"
               THEN {Abort(g)} \cup like_match_backtrack_past_end(like_text, g)
               ELSE {g}
       IN  like_frame' \in outcomes(like_match_step(like_pattern, kernel,
                                                    like_text, like_frame))
    /\ UNCHANGED <<like_src, like_options, like_pattern, like_text, kernel, searchVars, extVars>>

(* The main loop is left at the end of the text; the closing loop decides. *)
LikeMatchTail ==
    /\ like_frame.pc = "loop"
    /\ like_frame.s_idx >= Len(like_text)
    /\ like_frame' = like_match_tail(like_pattern, like_frame)
    /\ UNCHANGED <<like_src, like_options, like_pattern, like_text, kernel, searchVars, extVars>>

NextLike ==
    \/ Compile
    \/ LikeMatchBegin
    \/ LikeMatchStep
    \/ LikeMatchTail

SpecLike == InitLike /\ [][NextLike]_vars

----------------------------------------------------------------------------
(* Properties of the search kernels.                                       *)

(* The list of all occurrences in increasing order. *)
IsOccurrenceList(l, t, p) ==
    /\ StrictlyIncreasing(l)
    /\ ElementsOf(l) = Occurrences(t, p)

(* C2: kmp_find returns what naive_find_scalar returns, the smallest offset
   at which the pattern occurs, and None when it does not occur. *)
C2_KmpFindIsNaiveFind ==
    call.op = "kmp_find" =>
        /\ call.ret = naive_find_scalar(text, pattern)
        /\ call.ret = FirstOccurrence(text, pattern)

(* kmp_find has returned a hit reached after falling back through the LPS
   table: the pattern has a border and the hit is not at offset 0. *)
C2_Witness ==
    /\ call.op = "kmp_find"
    /\ Len(pattern) = 3
    /\ At(build_lps(pattern), 1) = 1
    /\ call.ret /= None
    /\ call.ret[1] > 0

(* C3: bm_find returns what naive_find_scalar returns, the smallest offset at
   which the pattern occurs or None, so no shift skips an occurrence, and
   it never indexes the text out of bounds. *)
C3_BmFindIsNaiveFind ==
    call.op = "bm_find" =>
        /\ call.ret /= OutOfBounds
        /\ call.ret = naive_find_scalar(text, pattern)
        /\ call.ret = FirstOccurrence(text, pattern)

(* bm_find has returned a hit that is not at offset 0, so at least one
   mismatch shift was taken before it, with a pattern of several bytes. *)
C3_Witness ==
    /\ call.op = "bm_find"
    /\ Len(pattern) >= 2
    /\ call.ret /= None
    /\ call.ret[1] >= 2

(* C4: the default find_all_bytes terminates, and returns every occurrence
   offset exactly once in strictly increasing order, each being the
   find_bytes result on the suffix one byte after the previous hit. *)
C4_FindAllBytesResult ==
    fa_pc = "done" =>
        /\ IsOccurrenceList(results, text, pattern)
        /\ \A k \in 1..Len(results) :
              LET from == IF k = 1 THEN 0 ELSE results[k - 1] + 1
              IN find_bytes(kernel, pattern, slice_from_bytes(text, from))
                    = Some(results[k] - from)

C4_FindAllBytes ==
    /\ [](C4_FindAllBytesResult)
    /\ (fa_pc = "loop") ~> (fa_pc = "done")

(* find_all_bytes has finished with overlapping hits. *)
C4_Witness ==
    /\ fa_pc = "done"
    /\ Len(pattern) >= 2
    /\ Len(results) >= 2
    /\ results[2] < results[1] + Len(pattern)

(* C5: for the empty pattern the find functions return Some(0) and the
   find-all functions and the default find_all_bytes return 0, 1, ..., |text|. *)
C5_EmptyPattern ==
    pattern = <<>> =>
        /\ call.op \in {"naive_find_scalar", "kmp_find", "bm_find"}
              => call.ret = Some(0)
        /\ call.op \in {"naive_find_all_scalar", "kmp_find_all", "bm_find_all"}
              => call.ret = RangeInclusive(Len(text))
        /\ call.op = "find_all_bytes" => call.ret = RangeInclusive(Len(text))

(* A find-all function has returned for the empty pattern on a text of
   three bytes. *)
C5_Witness ==
    /\ pattern = <<>>
    /\ Len(text) = 3
    /\ call.op = "kmp_find_all"
    /\ call.ret = <<0, 1, 2, 3>>

(* C6: for a non-empty pattern kmp_find_all and bm_find_all return the list
   naive_find_all_scalar returns: all occurrences, overlapping ones
   included, in strictly increasing order. *)
C6_FindAllIsNaiveFindAll ==
    (pattern /= <<>> /\ call.op \in {"kmp_find_all", "bm_find_all"}) =>
        /\ call.ret = naive_find_all_scalar(text, pattern)
        /\ IsOccurrenceList(call.ret, text, pattern)

(* bm_find_all has returned overlapping occurrences. *)
C6_Witness ==
    /\ call.op = "bm_find_all"
    /\ Len(pattern) >= 2
    /\ Len(call.ret) >= 2
    /\ call.ret[2] < call.ret[1] + Len(pattern)
----------------------------------------------------------------------------
(* LIKE semantics, stated directly; the matcher is compared with these.    *)

(* Byte index i starts a char of t or is the end of t. *)
IsCharBoundary(t, i) == i = Len(t) \/ (i < Len(t) /\ At(t, i) \notin 128..191)

(* t[from..to] is exactly n whole chars. *)
IsCodepoints(t, from, to, n) ==
    /\ IsCharBoundary(t, from)
    /\ IsCharBoundary(t, to)
    /\ Cardinality({i \in from..(to - 1) : IsCharBoundary(t, i)}) = n

(* t[pos..] splits into consecutive pieces, one per token from the k-th on. *)
RECURSIVE SplitsFrom(_, _, _, _)
SplitsFrom(tokens, k, t, pos) ==
    IF k > Len(tokens) THEN pos = Len(t)
    ELSE CASE tokens[k].kind = "Literal" ->
                /\ OccursAt(t, tokens[k].lit, pos)
                /\ SplitsFrom(tokens, k + 1, t, pos + Len(tokens[k].lit))
           [] tokens[k].kind = "Skip" ->
                \E e \in pos..Len(t) :
                    /\ IsCodepoints(t, pos, e, tokens[k].count)
                    /\ SplitsFrom(tokens, k + 1, t, e)
           [] tokens[k].kind = "Any" ->
                \E e \in pos..Len(t) : SplitsFrom(tokens, k + 1, t, e)

LikeSemantics(tokens, t) == SplitsFrom(tokens, 1, t, 0)

RECURSIVE SumOver(_, _)
SumOver(tokens, k) ==
    IF k > Len(tokens) THEN 0
    ELSE Len(tokens[k].lit) + tokens[k].count + SumOver(tokens, k + 1)

RECURSIVE SumOfSkips(_, _)
SumOfSkips(tokens, k) ==
    IF k > Len(tokens) THEN 0 ELSE tokens[k].count + SumOfSkips(tokens, k + 1)

Compiled == like_pattern /= NotCompiled /\ ~like_pattern.panicked

Matched == like_frame.pc = "done"

(* The number of '_' bytes of a byte string. *)
Underscores(b) == Cardinality({k \in 1..Len(b) : b[k] = UNDERSCORE})

RECURSIVE UnderscoresInLiterals(_, _)
UnderscoresInLiterals(tokens, k) ==
    IF k > Len(tokens) THEN 0
    ELSE Underscores(tokens[k].lit) + UnderscoresInLiterals(tokens, k + 1)

----------------------------------------------------------------------------
(* Properties of the LIKE compiler and matcher.                            *)

(* C1: with default options and a kernel returning the smallest occurrence,
   like_match returns true exactly when the whole text splits into
   consecutive pieces, one per token: a Literal piece equals the literal,
   a Skip(n) piece is n chars, an Any piece is any substring. *)
C1_LikeMatchIsLikeSemantics ==
    (Matched /\ like_options = DefaultOptions) =>
        like_frame.result = LikeSemantics(like_pattern.tokens, like_text)

(* like_match has returned true after backtracking to an Any that is
   followed by a Literal and later tokens: the literal was found again
   further right than its first occurrence. *)
C1_Witness ==
    /\ Matched
    /\ like_options = DefaultOptions
    /\ like_frame.result
    /\ Len(like_pattern.tokens) >= 3
    /\ like_pattern.tokens[1] = Any
    /\ like_pattern.tokens[2].kind = "Literal"
    /\ like_frame.match_s_idx
          > find_str(kernel, like_pattern.tokens[2].lit, like_text)[1]

(* C7: the compiled token list has no two adjacent Any, no two adjacent
   Skip, no empty Literal and no two adjacent Literal; the Skip counts add
   up to the number of wildcard underscores of the pattern. *)
C7_TokensNormalised ==
    Compiled =>
        LET tokens == like_pattern.tokens
        IN /\ \A k \in 1..Len(tokens) :
                tokens[k].kind = "Literal" => tokens[k].lit /= <<>>
           /\ \A k \in 1..(Len(tokens) - 1) : tokens[k].kind /= tokens[k + 1].kind
           /\ \A k \in 1..Len(tokens) :
                tokens[k].kind = "Skip" => tokens[k].count >= 1
           /\ ~like_options.treat_underscore_as_literal =>
                SumOfSkips(tokens, 1) = Underscores(like_src)

(* A pattern with a run of underscores and a run of percents has been
   compiled with '_' as a wildcard. *)
C7_Witness ==
    /\ Compiled
    /\ like_src = <<95, 95, 37, 37>>
    /\ like_pattern.tokens = <<Skip(2), Any>>

(* C8: min_len is the sum of the Literal byte lengths and the Skip counts;
   like_match returns false on every text shorter than min_len, and no
   such text matches under LIKE semantics. *)
C8_MinLen ==
    Compiled =>
        /\ like_pattern.min_len = SumOver(like_pattern.tokens, 1)
        /\ (Matched /\ Len(like_text) < like_pattern.min_len) =>
              /\ ~like_frame.result
              /\ ~LikeSemantics(like_pattern.tokens, like_text)

(* like_match has returned on a non-empty text shorter than the min_len of
   a pattern with a Literal and a Skip. *)
C8_Witness ==
    /\ Matched
    /\ Len(like_text) > 0
    /\ Len(like_text) < like_pattern.min_len
    /\ \E k \in 1..Len(like_pattern.tokens) : like_pattern.tokens[k].kind = "Skip"
    /\ \E k \in 1..Len(like_pattern.tokens) : like_pattern.tokens[k].kind = "Literal"

(* C9 as stated: when like_match returns true, a first token Literal(L) is
   a prefix of the text and a last token Literal(L) is a suffix of the
   text.  It fails for an FFT kernel and literal_underscore_is_wildcard:
   the pattern a_ is compiled to Literal(a_) and accepts the text ab. *)
C9_Anchoring ==
    (Matched /\ like_frame.result /\ Len(like_pattern.tokens) > 0) =>
        LET first == like_pattern.tokens[1]
            last == like_pattern.tokens[Len(like_pattern.tokens)]
        IN /\ first.kind = "Literal" => starts_with(like_text, first.lit)
           /\ last.kind = "Literal" =>
                /\ Len(last.lit) <= Len(like_text)
                /\ slice_from(like_text, Len(like_text) - Len(last.lit)) = last.lit

(* The literal lit is at offset i of the text t: byte for byte, or, for a
   pattern compiled with literal_underscore_is_wildcard for an FFT kernel,
   with every '_' of lit standing for any one byte. *)
LiteralIsAt(lit, t, i) ==
    /\ i >= 0
    /\ i + Len(lit) <= Len(t)
    /\ IF like_pattern.literal_underscore_is_wildcard /\ kernel \in FftKernels
       THEN FftMatchAt(t, lit, i)
       ELSE SubSeq(t, i + 1, i + Len(lit)) = lit

(* C9, amended: when like_match returns true, a first token Literal(L) is
   at the start of the text and a last token Literal(L) is at its end, byte
   for byte; only for a pattern compiled with literal_underscore_is_wildcard
   for a kernel that takes '_' as a wildcard (FftStr0, FftStr1) may a byte
   of the text under a '_' of L be any byte. *)
C9_AnchoringUpToWildcard ==
    (Matched /\ like_frame.result /\ Len(like_pattern.tokens) > 0) =>
        LET first == like_pattern.tokens[1]
            last == like_pattern.tokens[Len(like_pattern.tokens)]
        IN /\ first.kind = "Literal" => LiteralIsAt(first.lit, like_text, 0)
           /\ last.kind = "Literal" =>
                LiteralIsAt(last.lit, like_text, Len(like_text) - Len(last.lit))

(* like_match, with an FFT kernel, has returned true for a pattern that
   begins with a Literal holding a '_' and goes on with an Any, on a text
   longer than min_len that has another byte under the '_'. *)
C9_Witness ==
    /\ Matched
    /\ like_frame.result
    /\ kernel \in FftKernels
    /\ like_pattern.literal_underscore_is_wildcard
    /\ Len(like_pattern.tokens) = 2
    /\ like_pattern.tokens[1].kind = "Literal"
    /\ like_pattern.tokens[2] = Any
    /\ contains_underscore(like_pattern.tokens[1].lit)
    /\ ~starts_with(like_text, like_pattern.tokens[1].lit)
    /\ Len(like_text) > like_pattern.min_len

(* C10: with treat_underscore_as_literal and without
   literal_underscore_is_wildcard no Skip token is produced, every '_' of
   the pattern is inside a Literal, and like_match accepts a text only if
   the literals, '_' bytes included, occur in it as LIKE semantics asks. *)
C10_UnderscoreLiteral ==
    (Compiled /\ like_options = CompileOptions(TRUE, FALSE)) =>
        /\ \A k \in 1..Len(like_pattern.tokens) : like_pattern.tokens[k].kind /= "Skip"
        /\ UnderscoresInLiterals(like_pattern.tokens, 1) = Underscores(like_src)
        /\ (Matched /\ like_frame.result) =>
              /\ LikeSemantics(like_pattern.tokens, like_text)
              /\ Underscores(like_text) >= Underscores(like_src)

(* With '_' literal, a pattern %..._...% with a byte before the '_' has
   matched a text. *)
C10_Witness ==
    /\ Matched
    /\ like_options = CompileOptions(TRUE, FALSE)
    /\ like_frame.result
    /\ like_pattern.tokens = <<Any, Literal(<<97, 95>>), Any>>
    /\ Len(like_text) > 2

----------------------------------------------------------------------------
(* The executor (crate engine).  A DataSet is [tables], a Table is         *)
(* [name, rows], a Row is [id, desc, data].  A `&Row` is modelled by the   *)
(* place it points to: the 0-based table and row positions in the dataset. *)

MaxTables == 2
MaxRows == 2
MaxPatterns == 2

Row(id, desc, data) == [id |-> id, desc |-> desc, data |-> data]

Table(name, rows) == [name |-> name, rows |-> rows]

DataSet(tables) == [tables |-> tables]

RowRef(table, row) == [table |-> table, row |-> row]

Match(table, row) == [table |-> table, row |-> row]

BatchMatch(pattern_index, table, row) ==
    [pattern_index |-> pattern_index, table |-> table, row |-> row]

(* The rows, table names and pattern strings of the modelled datasets:
   rows "a" and "ab", the table at position i named "t", "u", "v", ...,
   patterns a% (every row matches) and %b (only "ab" matches). *)
EngineRows == {Row(<<49>>, <<>>, <<97>>), Row(<<50>>, <<>>, <<97, 98>>)}

EngineTableName(i) == <<115 + i>>

EnginePatternSources == {<<97, 37>>, <<37, 98>>}

(* The kernel type S the executor is instantiated with. *)
EngineKernels == {"kmp"}

EngineDataSets ==
    {DataSet([i \in DOMAIN rss |-> Table(EngineTableName(i), rss[i])]) :
        rss \in SeqsUpTo(SeqsUpTo(EngineRows, MaxRows), MaxTables)}

(* The locals of execute at its entry. *)
execute_begin(pattern_index) ==
    [op |-> "execute", pc |-> "loop", pattern_index |-> pattern_index,
     table |-> 0, row |-> 0, matches |-> <<>>]

(* The body of the inner loop of execute, for the row the cursor is on. *)
execute_row_no_filter(pat, S, ds, f) ==
    LET table == At(ds.tables, f.table)
    IN  [f EXCEPT !.row = f.row + 1,
                  !.matches = Append(f.matches, Match(table.name, RowRef(f.table, f.row)))]

execute_row(pat, S, ds, f) ==
    LET table == At(ds.tables, f.table)
        row == At(table.rows, f.row)
    IN  IF like_match(pat, S, row.data)
        THEN [f EXCEPT !.row = f.row + 1,
                       !.matches = Append(f.matches, Match(table.name, RowRef(f.table, f.row)))]
        ELSE [f EXCEPT !.row = f.row + 1]

(* One step of execute: the two loops end, move on or run their body. *)
execute_step(pat, S, ds, f) ==
    IF f.table >= Len(ds.tables) THEN [f EXCEPT !.pc = "done"]
    ELSE IF f.row >= Len(At(ds.tables, f.table).rows)
    THEN [f EXCEPT !.table = f.table + 1, !.row = 0]
    ELSE execute_row(pat, S, ds, f)

RECURSIVE execute_loop(_, _, _, _)
execute_loop(pat, S, ds, f) ==
    IF f.pc /= "loop" THEN f ELSE execute_loop(pat, S, ds, execute_step(pat, S, ds, f))

(* execute::<S>(pattern, dataset). *)
execute(pat, S, ds) == execute_loop(pat, S, ds, execute_begin(0)).matches

(* The locals of execute_all at its entry. *)
execute_all_begin ==
    [op |-> "execute_all", pc |-> "loop", pattern_index |-> 0,
     table |-> 0, row |-> 0, matches |-> <<>>]

(* The body of the innermost loop of execute_all. *)
execute_all_row_index_zero(pats, S, ds, f) ==
    LET table == At(ds.tables, f.table)
        row == At(table.rows, f.row)
    IN  IF like_match(At(pats, f.pattern_index), S, row.data)
        THEN [f EXCEPT !.row = f.row + 1,
                       !.matches = Append(f.matches,
                                          BatchMatch(0, table.name, RowRef(f.table, f.row)))]
        ELSE [f EXCEPT !.row = f.row + 1]

execute_all_row(pats, S, ds, f) ==
    LET table == At(ds.tables, f.table)
        row == At(table.rows, f.row)
    IN  IF like_match(At(pats, f.pattern_index), S, row.data)
        THEN [f EXCEPT !.row = f.row + 1,
                       !.matches = Append(f.matches,
                                          BatchMatch(f.pattern_index, table.name,
                                                     RowRef(f.table, f.row)))]
        ELSE [f EXCEPT !.row = f.row + 1]

(* One step of execute_all. *)
execute_all_step(pats, S, ds, f) ==
    IF f.pattern_index >= Len(pats) THEN [f EXCEPT !.pc = "done"]
    ELSE IF f.table >= Len(ds.tables)
    THEN [f EXCEPT !.pattern_index = f.pattern_index + 1, !.table = 0, !.row = 0]
    ELSE IF f.row >= Len(At(ds.tables, f.table).rows)
    THEN [f EXCEPT !.table = f.table + 1, !.row = 0]
    ELSE execute_all_row(pats, S, ds, f)

RECURSIVE execute_all_loop(_, _, _, _)
execute_all_loop(pats, S, ds, f) ==
    IF f.pc /= "loop" THEN f
    ELSE execute_all_loop(pats, S, ds, execute_all_step(pats, S, ds, f))

(* execute_all::<S>(patterns, dataset). *)
execute_all(pats, S, ds) == execute_all_loop(pats, S, ds, execute_all_begin).matches

(* The executor as a state machine: a dataset, a kernel and a list of      *)
(* compiled patterns are fixed; execute is called on one of the patterns,  *)
(* or execute_all on the list, and `exec` holds the locals at the return.  *)

coreVars == <<text, pattern, call, kernel, cursor, results, fa_pc, likeVars>>

CoreIdle ==
    /\ text = <<>>
    /\ pattern = <<>>
    /\ SearchIdle
    /\ LikeIdle

InitEngine ==
    /\ dataset \in EngineDataSets
    /\ kernel \in EngineKernels
    /\ patterns \in {[i \in DOMAIN srcs |-> compile_pattern(kernel, srcs[i])] :
                        srcs \in SeqsUpTo(EnginePatternSources, MaxPatterns)}
    /\ exec = ExecIdle
    /\ CoreIdle
    /\ ArenaIdle /\ FmIdle /\ TriIdle

(* execute::<S>(&patterns[i], &dataset) is called and returns. *)
ExecuteCall ==
    /\ exec.pc = "idle"
    /\ \E i \in 0..(Len(patterns) - 1) :
          exec' = execute_loop(At(patterns, i), kernel, dataset, execute_begin(i))
    /\ UNCHANGED <<dataset, patterns, coreVars, arenaVars, fmVars, triVars>>

(* execute_all::<S>(&patterns, &dataset) is called and returns. *)
ExecuteAllCall ==
    /\ exec.pc = "idle"
    /\ exec' = execute_all_loop(patterns, kernel, dataset, execute_all_begin)
    /\ UNCHANGED <<dataset, patterns, coreVars, arenaVars, fmVars, triVars>>

NextEngine ==
    \/ ExecuteCall
    \/ ExecuteAllCall

SpecEngine == InitEngine /\ [][NextEngine]_vars

(* The (table, row) places of a dataset, and their order: table position
   first, row position second. *)
Places(ds) ==
    UNION {{RowRef(ti, ri) : ri \in 0..(Len(At(ds.tables, ti).rows) - 1)} :
              ti \in 0..(Len(ds.tables) - 1)}

PlaceBefore(p, q) == p.table < q.table \/ (p.table = q.table /\ p.row < q.row)

RowAt(ds, p) == At(At(ds.tables, p.table).rows, p.row)

(* The places whose row data the pattern accepts. *)
MatchingPlaces(pat, S, ds) == {p \in Places(ds) : like_match(pat, S, RowAt(ds, p).data)}

(* The places of a set in increasing order, as a sequence. *)
InOrder(ps) ==
    [k \in 1..Cardinality(ps) |->
        CHOOSE p \in ps : Cardinality({q \in ps : PlaceBefore(q, p)}) = k - 1]

(* The matches execute owes for the places before its cursor. *)
OwedMatches(pat, S, ds, f) ==
    LET past == {p \in MatchingPlaces(pat, S, ds) : PlaceBefore(p, RowRef(f.table, f.row))}
        order == InOrder(past)
    IN  [k \in DOMAIN order |-> Match(At(ds.tables, order[k].table).name, order[k])]

(* C11: when execute returns, both loops have run to their end and the
   matches are exactly one Match for each (table, row) place of the
   dataset whose row data like_match accepts, none for any other row, each
   carrying the table's name and the row, in table order and row order
   within a table. *)
C11_ExecuteMatches ==
    exec.op = "execute" =>
        /\ exec.pc = "done"
        /\ exec.table = Len(dataset.tables) /\ exec.row = 0
        /\ exec.matches = OwedMatches(At(patterns, exec.pattern_index), kernel, dataset, exec)

(* execute has returned two matches from two tables and left a row out. *)
C11_Witness ==
    /\ exec.op = "execute"
    /\ exec.pc = "done"
    /\ Len(exec.matches) = 2
    /\ exec.matches[1].row.table /= exec.matches[2].row.table
    /\ exec.matches[1].table /= exec.matches[2].table
    /\ Cardinality(Places(dataset)) > 2

Tagged(ms, i) == [k \in DOMAIN ms |-> BatchMatch(i, ms[k].table, ms[k].row)]

BatchBefore(a, b) ==
    \/ a.pattern_index < b.pattern_index
    \/ a.pattern_index = b.pattern_index /\ PlaceBefore(a.row, b.row)

(* C12: execute_all returns the concatenation, for pattern index 0, 1, ...
   of execute on that pattern with every match tagged by the index, so the
   result is ordered by pattern index, then table, then row, and a pattern
   that matches nothing contributes nothing. *)
C12_ExecuteAllIsConcat ==
    (exec.op = "execute_all" /\ exec.pc = "done") =>
        /\ exec.matches =
              Concat([i \in DOMAIN patterns |->
                         Tagged(execute(patterns[i], kernel, dataset), i - 1)])
        /\ \A k, l \in DOMAIN exec.matches :
              k < l => BatchBefore(exec.matches[k], exec.matches[l])
        /\ \A i \in DOMAIN patterns :
              MatchingPlaces(patterns[i], kernel, dataset) = {}
                  => \A k \in DOMAIN exec.matches : exec.matches[k].pattern_index /= i - 1

(* execute_all has returned matches of the second pattern only. *)
C12_Witness ==
    /\ exec.op = "execute_all"
    /\ exec.pc = "done"
    /\ Len(patterns) = 2
    /\ Len(exec.matches) >= 2
    /\ MatchingPlaces(patterns[1], kernel, dataset) = {}
    /\ \A k \in DOMAIN exec.matches : exec.matches[k].pattern_index = 1

----------------------------------------------------------------------------
(* The bump arena (crate storage).  Pointers are addresses, integers; the  *)
(* arena is the BumpArenaInner record [start, ptr, end, total_size].  The  *)
(* bytes written into a region are not modelled.  arena_log records the    *)
(* last call: its name, its outcome ("ok" or the panic), the layout, the   *)
(* address returned, the bump pointer before the call, the regions handed  *)
(* out since the last reset, the first region handed out after the         *)
(* construction with its layout, and whether reset was ever called.        *)

MaxArenaAllocs == 3
MaxSliceLen == 2
MaxStrLen == 3

(* The address map_memory returns (page-aligned), and the sizes the arena
   is constructed with: those of the tests, and 0. *)
ArenaStarts == {4096}

(* What map_memory(size) returns: the start of the mapping, or an error. *)
Mapped(start_ptr) == [ok |-> TRUE, ptr |-> start_ptr]

MapFailed == [ok |-> FALSE, ptr |-> 0]

MapMemoryResults == {Mapped(start_ptr) : start_ptr \in ArenaStarts} \cup {MapFailed}

ArenaSizes == {0, 10, 16}

(* Layout: size and alignment, a power of two. *)
Layout(size, align) == [size |-> size, align |-> align]

(* Layout::new::<T>() for u8, u32 and u64. *)
ArenaTypes == {Layout(1, 1), Layout(4, 4), Layout(8, 8)}

(* Layout::for_value(src) for a slice of len elements of type T. *)
Layout_for_value(T, len) == Layout(len * T.size, T.align)

(* The layouts given to alloc_layout directly. *)
ArenaLayouts == {Layout(0, 2), Layout(3, 2), Layout(2, 16)}

(* Stands for usize::MAX, the value align_offset returns when it cannot
   align; no offset of the model reaches it. *)
USIZE_MAX == 2147483647

(* <*mut u8>::align_offset(align): the bytes to the next multiple of align. *)
align_offset_zero(addr, align) == 0

align_offset(addr, align) == (align - (addr % align)) % align

(* BumpArena::new(size), where map_memory(size) returns `mapped`. *)
BumpArena_new(size, mapped) ==
    IF ~(size > 0) THEN [outcome |-> "Size must be > 0", arena |-> NoArena]
    ELSE IF ~mapped.ok THEN [outcome |-> "BumpArena: mmap failed", arena |-> NoArena]
    ELSE [outcome |-> "ok",
          arena |-> [start |-> mapped.ptr, ptr |-> mapped.ptr,
                     end |-> mapped.ptr + size, total_size |-> size]]

(* BumpArena::used(). *)
used(inner) == inner.ptr - inner.start

(* BumpArena::capacity(). *)
capacity(inner) == inner.total_size

(* BumpArena::alloc_layout(layout): the outcome, the address returned and
   the arena afterwards. *)
alloc_layout_end_excluded(inner, layout) ==
    LET offset == align_offset(inner.ptr, layout.align)
        aligned_ptr == inner.ptr + offset
        new_ptr == aligned_ptr + layout.size
    IN  IF new_ptr >= inner.end
        THEN [outcome |-> "Out of Memory", addr |-> 0, arena |-> inner]
        ELSE [outcome |-> "ok", addr |-> aligned_ptr, arena |-> [inner EXCEPT !.ptr = new_ptr]]

alloc_layout(inner, layout) ==
    LET align == layout.align
        size == layout.size
        offset == align_offset(inner.ptr, align)
        aligned_ptr == inner.ptr + offset
        new_ptr == aligned_ptr + size
    IN  IF offset = USIZE_MAX
        THEN [outcome |-> "Fatal alignment error", addr |-> 0, arena |-> inner]
        ELSE IF new_ptr > inner.end
        THEN [outcome |-> "Out of Memory", addr |-> 0, arena |-> inner]
        ELSE [outcome |-> "ok", addr |-> aligned_ptr, arena |-> [inner EXCEPT !.ptr = new_ptr]]

(* BumpArena::alloc_str(src), through alloc_slice(src.as_bytes()). *)
alloc_str(inner, src) == alloc_layout(inner, Layout_for_value(Layout(1, 1), Len(src)))

(* BumpArena::reset(). *)
reset_keeps_ptr(inner) == inner

reset(inner) == [inner EXCEPT !.ptr = inner.start]

(* The arena as a state machine: it is constructed, then allocations and   *)
(* resets follow in any order.  A panic leaves the arena as it was.        *)

InitArena ==
    /\ ArenaIdle
    /\ kernel = "naive"
    /\ CoreIdle
    /\ EngineIdle /\ FmIdle /\ TriIdle

ArenaNew ==
    /\ arena = NoArena
    /\ \E size \in ArenaSizes, mapped \in MapMemoryResults :
          LET r == BumpArena_new(size, mapped)
          IN  /\ arena' = r.arena
              /\ arena_log' = [NoArenaLog EXCEPT !.op = "new", !.outcome = r.outcome,
                                                 !.size = size, !.before = r.arena.ptr]
    /\ UNCHANGED <<coreVars, engineVars, fmVars, triVars, load_input, load_call>>

(* A call of alloc_layout made by `op`, and what the log keeps of it. *)
ArenaAllocCall(op, layout) ==
    LET r == alloc_layout(arena, layout)
        region == [addr |-> r.addr, size |-> layout.size, align |-> layout.align]
    IN  /\ arena /= NoArena
        /\ Len(arena_log.regions) < MaxArenaAllocs
        /\ arena' = r.arena
        /\ arena_log' =
              [arena_log EXCEPT
                  !.op = op, !.outcome = r.outcome,
                  !.size = layout.size, !.align = layout.align,
                  !.addr = r.addr, !.before = arena.ptr,
                  !.regions = IF r.outcome = "ok" THEN Append(@, region) ELSE @,
                  !.first = IF r.outcome = "ok" /\ @ = <<>> THEN <<region>> ELSE @]
        /\ UNCHANGED <<coreVars, engineVars, fmVars, triVars, load_input, load_call>>

ArenaAllocLayout == \E layout \in ArenaLayouts : ArenaAllocCall("alloc_layout", layout)

ArenaAlloc == \E T \in ArenaTypes : ArenaAllocCall("alloc", T)

ArenaAllocSlice ==
    \E T \in ArenaTypes, len \in 0..MaxSliceLen :
        ArenaAllocCall("alloc_slice", Layout_for_value(T, len))

ArenaAllocStr ==
    \E len \in 0..MaxStrLen : ArenaAllocCall("alloc_str", Layout_for_value(Layout(1, 1), len))

ArenaReset ==
    /\ arena /= NoArena
    /\ arena' = reset(arena)
    /\ arena_log' = [arena_log EXCEPT !.op = "reset", !.outcome = "ok", !.size = 0,
                                      !.align = 1, !.addr = 0, !.before = arena.ptr,
                                      !.regions = <<>>, !.reset_seen = TRUE]
    /\ UNCHANGED <<coreVars, engineVars, fmVars, triVars, load_input, load_call>>

NextArena ==
    \/ ArenaNew
    \/ ArenaAllocLayout
    \/ ArenaAlloc
    \/ ArenaAllocSlice
    \/ ArenaAllocStr
    \/ ArenaReset

SpecArena == InitArena /\ [][NextArena]_vars

ArenaAllocOps == {"alloc_layout", "alloc", "alloc_slice", "alloc_str"}

(* The last call was an allocation, of any of the four kinds. *)
ArenaAllocated == arena_log.op \in ArenaAllocOps

(* used() at the entry of the last call. *)
UsedBefore == arena_log.before - arena.start

(* The last call was the first successful allocation since the last reset,
   or since the construction when there was none. *)
FirstSinceReset ==
    /\ ArenaAllocated
    /\ arena_log.outcome = "ok"
    /\ Len(arena_log.regions) = 1

(* C13: used() is 0 after new and after every reset; no allocation call,
   successful or not, lowers used(), so used() never decreases between two
   resets; and the first allocation after a reset returns the address the
   first allocation after the construction returned when the layout is the
   same. *)
C13_UsedAndReset ==
    /\ (arena /= NoArena /\ arena_log.op \in {"new", "reset"}) => used(arena) = 0
    /\ ArenaAllocated => used(arena) >= UsedBefore
    /\ (FirstSinceReset /\ arena_log.reset_seen
            /\ arena_log.first[1].size = arena_log.size
            /\ arena_log.first[1].align = arena_log.align)
          => arena_log.addr = arena_log.first[1].addr

(* After a reset, the first allocation repeats the layout of the first
   allocation the arena ever made. *)
C13_Witness ==
    /\ FirstSinceReset
    /\ arena_log.reset_seen
    /\ arena_log.first[1].size = arena_log.size
    /\ arena_log.first[1].align = arena_log.align
    /\ arena_log.size > 0
    /\ used(arena) > 0

(* The padding alloc_layout needs at the entry of the last call. *)
PaddingBefore == align_offset(arena_log.before, arena_log.align)

RegionInside(r) == arena.start <= r.addr /\ r.addr + r.size <= arena.end

(* C14: alloc_layout succeeds exactly when used() plus the alignment
   padding plus the size is at most capacity(), an exact fill included;
   otherwise it panics with the out-of-memory message and the bump pointer
   is unchanged.  So used() <= capacity() always, and every region handed
   out lies inside the mapped region. *)
C14_OutOfMemory ==
    /\ ArenaAllocated =>
          /\ arena_log.outcome = "ok"
                <=> UsedBefore + PaddingBefore + arena_log.size <= capacity(arena)
          /\ arena_log.outcome /= "ok" =>
                arena_log.outcome = "Out of Memory" /\ arena.ptr = arena_log.before
    /\ arena /= NoArena => used(arena) <= capacity(arena) /\ used(arena) >= 0
    /\ \A k \in DOMAIN arena_log.regions : RegionInside(arena_log.regions[k])

(* An allocation ran out of memory through its padding alone: its size
   would still have fitted. *)
C14_Witness ==
    /\ ArenaAllocated
    /\ arena_log.outcome = "Out of Memory"
    /\ UsedBefore + arena_log.size <= capacity(arena)
    /\ arena.ptr = arena_log.before
    /\ used(arena) > 0

RegionsDisjoint(a, b) == a.addr + a.size <= b.addr \/ b.addr + b.size <= a.addr

(* C15: a successful alloc_layout returns a multiple of the alignment, the
   smallest one not below the bump pointer at its entry, and afterwards
   used() is that aligned offset plus the size; the regions handed out
   between two resets are pairwise disjoint. *)
C15_AlignedDisjoint ==
    /\ (ArenaAllocated /\ arena_log.outcome = "ok") =>
          /\ arena_log.addr % arena_log.align = 0
          /\ arena_log.addr >= arena_log.before
          /\ \A a \in arena_log.before..(arena_log.addr - 1) : a % arena_log.align /= 0
          /\ used(arena) = (arena_log.addr - arena.start) + arena_log.size
    /\ \A k, l \in DOMAIN arena_log.regions :
          k /= l => RegionsDisjoint(arena_log.regions[k], arena_log.regions[l])

(* A third region was handed out after padding. *)
C15_Witness ==
    /\ ArenaAllocated
    /\ arena_log.outcome = "ok"
    /\ arena_log.addr > arena_log.before
    /\ arena_log.size > 0
    /\ Len(arena_log.regions) = 3
    /\ \A k \in DOMAIN arena_log.regions : arena_log.regions[k].size > 0

----------------------------------------------------------------------------
(* The FM-index (crate algos, fm_index.rs).  Vectors are sequences read    *)
(* with At (0-based); byte_to_rank is a function on 0..255; a rank is the  *)
(* 0-based position of a byte among the bytes of the text.                 *)

MaxFmTextLen == 4
MaxFmPatLen == 3

(* The bytes of the modelled corpora: 'a', 'b', '_' and the row separator
   0x1F; the sentinels and separators given to FMIndex::new; the bytes of
   the modelled patterns. *)
FmTextBytes == {97, 98, 95, 31}

FmSentinels == {0, 98}

FmSeparators == {None, Some(31), Some(0)}

FmPatternBytes == {97, 98, 95, 0}

Bytes == 0..255

(* The checkpoint distance FMIndex::new fixes. *)
checkpoint == 128

(* a < b for byte slices: <[u8] as Ord>::cmp is lexicographic. *)
slice_less(a, b) ==
    \E k \in 0..Len(a) :
        /\ k <= Len(b)
        /\ \A j \in 1..k : a[j] = b[j]
        /\ \/ k = Len(a) /\ k < Len(b)
           \/ k < Len(a) /\ k < Len(b) /\ a[k + 1] < b[k + 1]

(* build_suffix_array: the positions 0..len-1 sorted by their suffixes.
   The sorted place of a position is the number of positions whose suffix
   is smaller; suffixes of one text differ pairwise. *)
build_suffix_array(t) ==
    [k \in 1..Len(t) |->
        CHOOSE a \in 0..(Len(t) - 1) :
            Cardinality({b \in 0..(Len(t) - 1) :
                            slice_less(slice_from_bytes(t, b), slice_from_bytes(t, a))}) = k - 1]

(* build_bwt *)
build_bwt(t, sa, sentinel) ==
    [k \in 1..Len(sa) |-> IF sa[k] = 0 THEN sentinel ELSE At(t, sa[k] - 1)]

(* The elements of a set of numbers in increasing order. *)
sorted_from_set(set) ==
    [k \in 1..Cardinality(set) |->
        CHOOSE x \in set : Cardinality({y \in set : y < x}) = k - 1]

(* build_alphabet: the loop visits the bytes 0..255 in increasing order and
   gives the next rank to each byte that occurs, so the rank of a byte is
   the number of smaller bytes that occur. *)
build_alphabet(t) ==
    LET counts_by_byte == [b \in Bytes |-> Cardinality({k \in DOMAIN t : t[k] = b})]
        occurring == {b \in Bytes : counts_by_byte[b] /= 0}
        rank_to_byte == sorted_from_set(occurring)
    IN  [byte_to_rank |->
            [b \in Bytes |-> IF b \in occurring
                             THEN Cardinality({x \in occurring : x < b})
                             ELSE -1],
         rank_to_byte |-> rank_to_byte,
         counts |-> [r \in DOMAIN rank_to_byte |-> counts_by_byte[rank_to_byte[r]]]]

(* build_c: the running total before each rank. *)
RECURSIVE build_c_loop(_, _, _, _)
build_c_loop(counts, i, total, c) ==
    IF i >= Len(counts) THEN c
    ELSE build_c_loop(counts, i + 1, total + At(counts, i), Append(c, total))

build_c(counts) == build_c_loop(counts, 0, 0, <<>>)

(* remap_bwt *)
remap_bwt(bwt, byte_to_rank) == [k \in DOMAIN bwt |-> byte_to_rank[bwt[k]]]

(* The iterations idx..stop-1 of build_occ's loop, were a checkpoint stored
   when idx, not idx + 1, is a multiple of the distance. *)
RECURSIVE build_occ_loop_checkpoint_early(_, _, _, _, _, _)
build_occ_loop_checkpoint_early(bwt, cp, idx, stop, counts, occ) ==
    IF idx >= stop THEN [counts |-> counts, occ |-> occ]
    ELSE LET rank == At(bwt, idx)
             counted == Put(counts, rank, At(counts, rank) + 1)
             next == IF idx % cp = 0 THEN Append(occ, counted) ELSE occ
         IN  IF Forced(counted) /\ Forced(next)
             THEN build_occ_loop_checkpoint_early(bwt, cp, idx + 1, stop, counted, next)
             ELSE [counts |-> counts, occ |-> occ]

(* The iterations idx..stop-1 of build_occ's loop over bwt: count the rank
   at idx, and store the counts after every checkpoint-th position. *)
RECURSIVE build_occ_loop(_, _, _, _, _, _)
build_occ_loop(bwt, cp, idx, stop, counts, occ) ==
    IF idx >= stop THEN [counts |-> counts, occ |-> occ]
    ELSE LET rank == At(bwt, idx)
             counted == Put(counts, rank, At(counts, rank) + 1)
             next == IF (idx + 1) % cp = 0 THEN Append(occ, counted) ELSE occ
         IN  IF Forced(counted) /\ Forced(next)
             THEN build_occ_loop(bwt, cp, idx + 1, stop, counted, next)
             ELSE [counts |-> counts, occ |-> occ]

(* The whole loop, run sixteen iterations at a time to keep the evaluation
   shallow. *)
RECURSIVE build_occ_run(_, _, _, _)
build_occ_run(bwt, cp, idx, st) ==
    IF idx >= Len(bwt) THEN st
    ELSE LET stop == Min(idx + 16, Len(bwt))
             next == build_occ_loop(bwt, cp, idx, stop, st.counts, st.occ)
         IN  IF Forced(next) THEN build_occ_run(bwt, cp, stop, next) ELSE st

(* build_occ: the counts before position 0, after every checkpoint-th
   position, and at the end when the length is no multiple of checkpoint. *)
build_occ(bwt, sigma, cp) ==
    LET counts == [r \in 1..sigma |-> 0]
        st == build_occ_run(bwt, cp, 0, [counts |-> counts, occ |-> <<counts>>])
    IN  IF Len(bwt) % cp /= 0 THEN Append(st.occ, st.counts) ELSE st.occ

(* FMIndex::new(text, sentinel, separator): the index, or the panic. *)
FMIndex_new(t, sentinel, separator) ==
    IF separator /= None /\ ~(separator[1] /= sentinel)
    THEN [built |-> "separator must differ from sentinel"]
    ELSE IF \E k \in DOMAIN t : t[k] = sentinel
    THEN [built |-> "sentinel byte appears in text"]
    ELSE LET txt == Append(t, sentinel)
             sa == build_suffix_array(txt)
             bwt == build_bwt(txt, sa, sentinel)
             alphabet == build_alphabet(txt)
             byte_to_rank == alphabet.byte_to_rank
             counts == alphabet.counts
             separator_rank ==
                 IF separator = None THEN None
                 ELSE IF byte_to_rank[separator[1]] < 0 THEN None
                 ELSE Some(byte_to_rank[separator[1]])
             ranked == remap_bwt(bwt, byte_to_rank)
         IN  [built |-> "ok",
              text |-> txt,
              sa |-> sa,
              bwt |-> ranked,
              c |-> build_c(counts),
              counts |-> counts,
              occ |-> build_occ(ranked, Len(counts), checkpoint),
              checkpoint |-> checkpoint,
              byte_to_rank |-> byte_to_rank,
              rank_to_byte |-> alphabet.rank_to_byte,
              sentinel_rank |-> byte_to_rank[sentinel],
              separator_rank |-> separator_rank,
              sentinel |-> sentinel,
              separator |-> separator]

(* FMIndex::len *)
FMIndex_len(f) == Len(f.text)

(* FMIndex::occ_at(rank, index): the occurrences of rank in bwt[..index],
   counted from the checkpoint at or before index. *)
occ_at(f, rank, index) ==
    LET capped == Min(index, FMIndex_len(f))
        base_idx == capped \div f.checkpoint
        base_pos == base_idx * f.checkpoint
    IN  At(At(f.occ, base_idx), rank)
            + Cardinality({i \in base_pos..(capped - 1) : At(f.bwt, i) = rank})

(* FMIndex::rank_for_byte *)
rank_for_byte(f, ch) ==
    IF f.byte_to_rank[ch] < 0 THEN None ELSE Some(f.byte_to_rank[ch])

(* The loop of backward_search over the pattern bytes, last byte first;
   i bytes are left.  The range is <<top, bottom>>. *)
RECURSIVE backward_search_loop(_, _, _, _, _)
backward_search_loop(f, pat, i, top, bottom) ==
    IF i = 0 THEN Some(<<top, bottom>>)
    ELSE LET rank == rank_for_byte(f, pat[i])
         IN  IF rank = None THEN None
             ELSE IF At(f.counts, rank[1]) = 0 THEN None
             ELSE LET new_top == At(f.c, rank[1]) + occ_at(f, rank[1], top)
                      new_bottom == At(f.c, rank[1]) + occ_at(f, rank[1], bottom)
                  IN  IF new_top >= new_bottom THEN None
                      ELSE backward_search_loop(f, pat, i - 1, new_top, new_bottom)

(* FMIndex::backward_search *)
backward_search(f, pat) ==
    IF Len(pat) = 0 THEN Some(<<0, FMIndex_len(f)>>)
    ELSE backward_search_loop(f, pat, Len(pat), 0, FMIndex_len(f))

(* <[usize]>::sort_unstable: the same elements, as often, in order. *)
RECURSIVE sort_insert(_, _)
sort_insert(sorted, x) ==
    IF Len(sorted) = 0 THEN <<x>>
    ELSE IF x <= Head(sorted) THEN <<x>> \o sorted
    ELSE <<Head(sorted)>> \o sort_insert(Tail(sorted), x)

RECURSIVE sort_unstable(_)
sort_unstable(l) ==
    IF Len(l) = 0 THEN <<>> ELSE sort_insert(sort_unstable(Tail(l)), Head(l))

(* FMIndex::search *)
FMIndex_search_whole_index(f, pat) == sort_unstable(f.sa)

FMIndex_search(f, pat) ==
    LET range == backward_search(f, pat)
    IN  IF range /= None
        THEN sort_unstable(SubSeq(f.sa, range[1][1] + 1, range[1][2]))
        ELSE <<>>

(* The ranks a '_' step of search_with_underscore follows from a range:
   those in bwt[top..bottom] but the sentinel's and the separator's. *)
underscore_ranks_any(f, top, bottom) ==
    {At(f.bwt, i) : i \in top..(bottom - 1)}

underscore_ranks(f, top, bottom) ==
    {r \in {At(f.bwt, i) : i \in top..(bottom - 1)} :
        /\ r /= f.sentinel_rank
        /\ f.separator_rank /= None => r /= f.separator_rank[1]
        /\ At(f.counts, r) /= 0}

(* rec of search_with_underscore: the positions it inserts into results. *)
RECURSIVE search_with_underscore_rec(_, _, _, _, _)
search_with_underscore_rec(f, pat, idx, top, bottom) ==
    IF idx < 0 THEN {At(f.sa, i) : i \in top..(bottom - 1)}
    ELSE LET ch == At(pat, idx)
             step(r) ==
                 LET new_top == At(f.c, r) + occ_at(f, r, top)
                     new_bottom == At(f.c, r) + occ_at(f, r, bottom)
                 IN  IF new_top < new_bottom
                     THEN search_with_underscore_rec(f, pat, idx - 1, new_top, new_bottom)
                     ELSE {}
         IN  IF ch = UNDERSCORE
             THEN UNION {step(r) : r \in underscore_ranks(f, top, bottom)}
             ELSE LET rank == rank_for_byte(f, ch)
                  IN  IF rank = None THEN {}
                      ELSE IF At(f.counts, rank[1]) = 0 THEN {}
                      ELSE step(rank[1])

(* FMIndex::search_with_underscore *)
search_with_underscore(f, pat) ==
    IF Len(pat) = 0 THEN [k \in 1..FMIndex_len(f) |-> k - 1]
    ELSE sorted_from_set(search_with_underscore_rec(f, pat, Len(pat) - 1, 0, FMIndex_len(f)))

(* The FM-index as a state machine: the arguments of FMIndex::new are      *)
(* fixed, the index is built, then it is queried once: the queries take    *)
(* &self and leave the index as it is.                                     *)

InitFm ==
    /\ fm_input \in [text : SeqsUpTo(FmTextBytes, MaxFmTextLen),
                     sentinel : FmSentinels, separator : FmSeparators]
    /\ fm = NoFm
    /\ fm_call = NoCall
    /\ kernel = "naive"
    /\ CoreIdle
    /\ EngineIdle /\ ArenaIdle /\ TriIdle

FmNew ==
    /\ fm = NoFm
    /\ fm' = FMIndex_new(fm_input.text, fm_input.sentinel, fm_input.separator)
    /\ UNCHANGED <<fm_input, fm_call, coreVars, engineVars, arenaVars, triVars>>

FmSearch ==
    /\ fm /= NoFm
    /\ fm.built = "ok"
    /\ fm_call = NoCall
    /\ \E pat \in SeqsUpTo(FmPatternBytes, MaxFmPatLen) :
          fm_call' = [op |-> "search", pattern |-> pat, ret |-> FMIndex_search(fm, pat)]
    /\ UNCHANGED <<fm_input, fm, coreVars, engineVars, arenaVars, triVars>>

FmSearchWithUnderscore ==
    /\ fm /= NoFm
    /\ fm.built = "ok"
    /\ fm_call = NoCall
    /\ \E pat \in SeqsUpTo(FmPatternBytes, MaxFmPatLen) :
          fm_call' = [op |-> "search_with_underscore", pattern |-> pat,
                      ret |-> search_with_underscore(fm, pat)]
    /\ UNCHANGED <<fm_input, fm, coreVars, engineVars, arenaVars, triVars>>

NextFm ==
    \/ FmNew
    \/ FmSearch
    \/ FmSearchWithUnderscore

SpecFm == InitFm /\ [][NextFm]_vars

(* The last query was FMIndex::search, with a non-empty pattern. *)
FmSearched == fm_call.op = "search" /\ fm_call.pattern /= <<>>

(* The pattern of the last query holds the sentinel byte. *)
SentinelInPattern == \E k \in DOMAIN fm_call.pattern : fm_call.pattern[k] = fm.sentinel

(* search returned the occurrences of the pattern in the corpus, the text
   given to FMIndex::new, in increasing order: what a naive scan returns. *)
SearchIsNaiveScan ==
    /\ IsOccurrenceList(fm_call.ret, fm_input.text, fm_call.pattern)
    /\ fm_call.ret = naive_find_all_scalar(fm_input.text, fm_call.pattern)

(* C16 as stated: for every corpus without the sentinel and every non-empty
   pattern, search returns, strictly increasing, exactly the offsets at
   which the pattern occurs in the corpus, and the empty list when it does
   not occur.  It fails for a pattern that holds the sentinel byte. *)
C16_SearchIsNaiveScan == FmSearched => SearchIsNaiveScan

(* C16, amended: for every corpus without the sentinel and every non-empty
   pattern that does not hold the sentinel byte, search returns, strictly
   increasing and without duplicates, exactly the offsets at which the
   pattern occurs in the corpus, and the empty list when it does not
   occur. *)
C16_SearchIsNaiveScanNoSentinel ==
    (FmSearched /\ ~SentinelInPattern) => SearchIsNaiveScan

(* search found a pattern of two bytes at two offsets at least, in a corpus
   with a separator. *)
C16_Witness ==
    /\ FmSearched
    /\ ~SentinelInPattern
    /\ Len(fm_call.pattern) >= 2
    /\ Len(fm_call.ret) >= 2
    /\ fm.separator_rank /= None

(* The pattern matches the index text at offset i, '_' standing for any
   byte but the sentinel and the separator. *)
WildcardMatchAt(f, pat, i) ==
    /\ i + Len(pat) <= Len(f.text)
    /\ \A j \in 0..(Len(pat) - 1) :
          \/ /\ At(pat, j) = UNDERSCORE
             /\ At(f.text, i + j) /= f.sentinel
             /\ f.separator /= None => At(f.text, i + j) /= f.separator[1]
          \/ /\ At(pat, j) /= UNDERSCORE
             /\ At(f.text, i + j) = At(pat, j)

HasUnderscore(pat) == \E k \in DOMAIN pat : pat[k] = UNDERSCORE

FmSearchedWithUnderscore == fm_call.op = "search_with_underscore"

UnderscoreSearchIsWildcardScan ==
    /\ StrictlyIncreasing(fm_call.ret)
    /\ ElementsOf(fm_call.ret) =
          {i \in 0..(Len(fm.text) - 1) : WildcardMatchAt(fm, fm_call.pattern, i)}
    /\ ~HasUnderscore(fm_call.pattern) => fm_call.ret = FMIndex_search(fm, fm_call.pattern)

(* C17 as stated: for every index and every pattern, search_with_underscore
   returns, sorted and without duplicates, exactly the offsets i at which
   every pattern byte is '_' over a text byte that is neither sentinel nor
   separator, or is not '_' and equals the text byte; without '_' the
   result is that of search.  It fails for a pattern that holds the
   sentinel byte followed by the first bytes of the text. *)
C17_UnderscoreSearch == FmSearchedWithUnderscore => UnderscoreSearchIsWildcardScan

(* C17, amended: the same for every pattern that does not hold the
   sentinel byte. *)
C17_UnderscoreSearchNoSentinel ==
    (FmSearchedWithUnderscore /\ ~SentinelInPattern) => UnderscoreSearchIsWildcardScan

(* A pattern with a '_' and another byte was found, in a text with a
   separator that the '_' must not stand for. *)
C17_Witness ==
    /\ FmSearchedWithUnderscore
    /\ ~SentinelInPattern
    /\ HasUnderscore(fm_call.pattern)
    /\ \E k \in DOMAIN fm_call.pattern : fm_call.pattern[k] /= UNDERSCORE
    /\ fm_call.ret /= <<>>
    /\ fm.separator_rank /= None

----------------------------------------------------------------------------
(* The trigram index (crate algos, trigram_index.rs).  The HashMap `index` *)
(* is a function from the keys present to their posting lists; a HashSet   *)
(* is a set.  Option<Vec<u32>> is None or Some(list).                      *)

MaxDocs == 2
MaxDocLen == 4
MaxLiteralLen == 4

(* The bytes of the modelled documents and literals: 'a' and 'b'. *)
TrigramBytes == {97, 98}

(* The documents added: the empty one, which like every document shorter
   than three bytes has no trigram, and those of the two greatest lengths. *)
TrigramDocs ==
    {t \in SeqsUpTo(TrigramBytes, MaxDocLen) : Len(t) = 0 \/ Len(t) >= MaxDocLen - 1}

(* trigrams(bytes): the key of every 3-byte window, in text order. *)
trigrams(bytes) ==
    IF Len(bytes) < 3 THEN <<>>
    ELSE [i \in 1..(Len(bytes) - 2) |->
             bytes[i] * 65536 + bytes[i + 1] * 256 + bytes[i + 2]]

(* index.entry(tri).or_default().push(doc_id), behind seen.insert(tri). *)
add_push_unseen(index, seen, key, doc_id) ==
    [k \in DOMAIN index \cup {key} |->
        IF k = key
        THEN Append(IF key \in DOMAIN index THEN index[key] ELSE <<>>, doc_id)
        ELSE index[k]]

add_push(index, seen, key, doc_id) ==
    IF key \in seen THEN index
    ELSE [k \in DOMAIN index \cup {key} |->
             IF k = key
             THEN Append(IF key \in DOMAIN index THEN index[key] ELSE <<>>, doc_id)
             ELSE index[k]]

(* The loop of add over the trigrams of the text. *)
RECURSIVE add_loop(_, _, _, _, _)
add_loop(index, grams, i, seen, doc_id) ==
    IF i >= Len(grams) THEN index
    ELSE add_loop(add_push(index, seen, At(grams, i), doc_id), grams, i + 1,
                  seen \cup {At(grams, i)}, doc_id)

(* TrigramIndex::add(text): the index afterwards and the doc id returned. *)
add(idx, t) ==
    LET doc_id == Len(idx.documents)
    IN  [index |-> [index |-> add_loop(idx.index, trigrams(t), 0, {}, doc_id),
                    documents |-> Append(idx.documents, t)],
         ret |-> doc_id]

(* intersect_sorted: the two-pointer merge. *)
RECURSIVE intersect_sorted_loop(_, _, _, _, _)
intersect_sorted_loop(a, b, i, j, out) ==
    IF ~(i < Len(a) /\ j < Len(b)) THEN out
    ELSE LET va == At(a, i)
             vb == At(b, j)
         IN  IF va = vb THEN intersect_sorted_loop(a, b, i + 1, j + 1, Append(out, va))
             ELSE IF va < vb THEN intersect_sorted_loop(a, b, i + 1, j, out)
             ELSE intersect_sorted_loop(a, b, i, j + 1, out)

intersect_sorted_first_only(a, b) ==
    IF Len(a) > 0 /\ Len(b) > 0 /\ a[1] = b[1] THEN <<a[1]>> ELSE <<>>

intersect_sorted(a, b) == intersect_sorted_loop(a, b, 0, 0, <<>>)

(* lists.sort_by_key(|list| list.len()): a stable sort by length. *)
RECURSIVE sort_by_key_len_insert(_, _)
sort_by_key_len_insert(sorted, l) ==
    IF Len(sorted) = 0 THEN <<l>>
    ELSE IF Len(l) < Len(Head(sorted)) THEN <<l>> \o sorted
    ELSE <<Head(sorted)>> \o sort_by_key_len_insert(Tail(sorted), l)

RECURSIVE sort_by_key_len(_)
sort_by_key_len(lists) ==
    IF Len(lists) = 0 THEN <<>>
    ELSE sort_by_key_len_insert(sort_by_key_len(SubSeq(lists, 1, Len(lists) - 1)),
                                lists[Len(lists)])

(* The loop of search_literal that intersects the sorted lists, from the
   second on, and stops at the empty result. *)
RECURSIVE search_literal_loop(_, _, _)
search_literal_loop(lists, k, result) ==
    IF k >= Len(lists) THEN result
    ELSE LET next == intersect_sorted(result, At(lists, k))
         IN  IF Len(next) = 0 THEN next ELSE search_literal_loop(lists, k + 1, next)

(* TrigramIndex::search_literal(literal). *)
search_literal(idx, literal) ==
    LET grams == trigrams(literal)
    IN  IF Len(grams) = 0 THEN None
        ELSE IF \E k \in DOMAIN grams : grams[k] \notin DOMAIN idx.index THEN None
        ELSE LET lists == sort_by_key_len([k \in DOMAIN grams |-> idx.index[grams[k]]])
             IN  Some(search_literal_loop(lists, 1, lists[1]))

(* The trigram index as a state machine: documents are added one by one;   *)
(* a literal is looked up at any point, which ends the run, search_literal *)
(* taking &self.                                                           *)

InitTrigram ==
    /\ TriIdle
    /\ kernel = "naive"
    /\ CoreIdle
    /\ EngineIdle /\ ArenaIdle /\ FmIdle

TrigramAdd ==
    /\ tri_call.op \in {"idle", "add"}
    /\ Len(tri.documents) < MaxDocs
    /\ \E t \in TrigramDocs :
          LET r == add(tri, t)
          IN  /\ tri' = r.index
              /\ tri_call' = [op |-> "add", arg |-> t, ret |-> r.ret]
    /\ UNCHANGED <<coreVars, engineVars, arenaVars, fmVars>>

TrigramSearchLiteral ==
    /\ tri_call.op \in {"idle", "add"}
    /\ \E literal \in SeqsUpTo(TrigramBytes, MaxLiteralLen) :
          tri_call' = [op |-> "search_literal", arg |-> literal,
                       ret |-> search_literal(tri, literal)]
    /\ UNCHANGED <<tri, coreVars, engineVars, arenaVars, fmVars>>

NextTrigram ==
    \/ TrigramAdd
    \/ TrigramSearchLiteral

SpecTrigram == InitTrigram /\ [][NextTrigram]_vars

(* The literal was looked up, and it has 3 bytes at least. *)
LiteralSearched == tri_call.op = "search_literal" /\ Len(tri_call.arg) >= 3

(* The document with this doc id holds the bytes somewhere. *)
DocContains(doc_id, bytes) == Occurrences(At(tri.documents, doc_id), bytes) /= {}

DocIds == 0..(Len(tri.documents) - 1)

(* C18: whatever documents were added, for a literal of 3 bytes at least
   every document that contains the literal has its doc id in the candidate
   list search_literal returns. *)
C18_NoFalseNegative ==
    LiteralSearched =>
        \A doc_id \in DocIds :
            DocContains(doc_id, tri_call.arg) =>
                /\ tri_call.ret /= None
                /\ doc_id \in ElementsOf(tri_call.ret[1])

(* Of two documents one holds the 4-byte literal; it is the only
   candidate. *)
C18_Witness ==
    /\ LiteralSearched
    /\ Len(tri_call.arg) = 4
    /\ Len(tri.documents) = 2
    /\ DocContains(1, tri_call.arg)
    /\ ~DocContains(0, tri_call.arg)
    /\ tri_call.ret = Some(<<1>>)

(* C19: add returns the doc ids 0, 1, 2, ... in call order; every posting
   list is strictly increasing, so a doc id is in it once at most even when
   the trigram repeats in the document; and every list search_literal
   returns is strictly increasing. *)
C19_DocIdsAndPostings ==
    /\ tri_call.op = "add" =>
          /\ tri_call.ret = Len(tri.documents) - 1
          /\ At(tri.documents, tri_call.ret) = tri_call.arg
    /\ \A key \in DOMAIN tri.index :
          /\ StrictlyIncreasing(tri.index[key])
          /\ ElementsOf(tri.index[key]) \subseteq DocIds
    /\ (tri_call.op = "search_literal" /\ tri_call.ret /= None)
          => StrictlyIncreasing(tri_call.ret[1])

(* The second document repeats a trigram the first one holds too. *)
C19_Witness ==
    /\ tri_call.op = "add"
    /\ tri_call.ret = 1
    /\ \E k, l \in DOMAIN trigrams(tri_call.arg) :
          /\ k /= l
          /\ trigrams(tri_call.arg)[k] = trigrams(tri_call.arg)[l]
          /\ tri.index[trigrams(tri_call.arg)[k]] = <<0, 1>>

(* Some document holds every trigram of the bytes. *)
SomeDocHasAllTrigrams(bytes) ==
    \E doc_id \in DocIds :
        ElementsOf(trigrams(bytes)) \subseteq ElementsOf(trigrams(At(tri.documents, doc_id)))

(* C20 as stated: search_literal returns None exactly when the literal has
   fewer than 3 bytes; for 3 bytes or more it returns a candidate list,
   which is empty when no document holds all the trigrams of the literal.
   The code returns None as well when a trigram of the literal is in no
   document. *)
C20_NoneOnlyWhenShort ==
    tri_call.op = "search_literal" =>
        /\ tri_call.ret = None <=> Len(tri_call.arg) < 3
        /\ (Len(tri_call.arg) >= 3 /\ ~SomeDocHasAllTrigrams(tri_call.arg))
              => tri_call.ret = Some(<<>>)

----------------------------------------------------------------------------
(* lut_short.rs: the LutShort kernel, x86 (SSSE3) build.  A __m128i is a   *)
(* sequence of 16 bytes, lane 0 first; a movemask is a number whose bit k  *)
(* stands for lane k.                                                      *)

MaxLutCoreLen == 3
MaxLutPatLen == 3

(* The texts searched: a run of one pad byte, a core over 'a' and 'b', and
   a second run of the pad byte; the runs put the core on either side of the
   16-byte and 64-byte block ends and in the tail.  The patterns: the short
   ones over 'a' and 'b', and three of 8, 9 and 9 bytes. *)
LutBytes == {97, 98}

LutPadBytes == {97, 120}

LutPadsBefore == {0, 14, 62}

LutPadsAfter == {0, 1, 48}

Repeat(b, n) == [k \in 1..n |-> b]

LutLongPatterns ==
    {Repeat(97, 7) \o <<98>>, Repeat(97, 8) \o <<98>>, Repeat(97, 9)}

LutTexts ==
    {Repeat(pad, before) \o core \o Repeat(pad, after) :
        pad \in LutPadBytes, before \in LutPadsBefore, after \in LutPadsAfter,
        core \in SeqsUpTo(LutBytes, MaxLutCoreLen)}

LutPatterns == SeqsUpTo(LutBytes, MaxLutPatLen) \cup LutLongPatterns

(* a & b on bytes. *)
RECURSIVE BitAnd(_, _)
BitAnd(a, b) ==
    IF a = 0 \/ b = 0 THEN 0
    ELSE (a % 2) * (b % 2) + 2 * BitAnd(a \div 2, b \div 2)

_mm_and_si128(a, b) == [k \in 1..16 |-> BitAnd(a[k], b[k])]

_mm_set1_epi8(b) == [k \in 1..16 |-> b]

(* Each 16-bit little-endian pair of lanes is shifted right by count. *)
_mm_srli_epi16(a, count) ==
    [k \in 1..16 |->
        LET low == IF k % 2 = 1 THEN a[k] ELSE a[k - 1]
            high == IF k % 2 = 1 THEN a[k + 1] ELSE a[k]
            word == (low + 256 * high) \div (2 ^ count)
        IN  IF k % 2 = 1 THEN word % 256 ELSE word \div 256]

(* pshufb: a lane whose index has bit 7 set is 0, else table[index & 15]. *)
_mm_shuffle_epi8(table, index) ==
    [k \in 1..16 |-> IF index[k] >= 128 THEN 0 ELSE table[(index[k] % 16) + 1]]

RECURSIVE movemask_loop(_, _)
movemask_loop(a, k) ==
    IF k > 16 THEN 0
    ELSE (IF a[k] >= 128 THEN 2 ^ (k - 1) ELSE 0) + movemask_loop(a, k + 1)

_mm_movemask_epi8(a) == movemask_loop(a, 1)

RECURSIVE trailing_zeros(_)
trailing_zeros(mask) == IF mask % 2 = 1 THEN 0 ELSE 1 + trailing_zeros(mask \div 2)

(* counts[b] after the counting loop of rarest_byte (a saturating u8). *)
rarest_count(pat, b) == Min(Cardinality({k \in DOMAIN pat : pat[k] = b}), 255)

(* The second loop of rarest_byte: a strictly smaller count replaces best. *)
RECURSIVE rarest_byte_loop(_, _, _)
rarest_byte_loop(pat, idx, best) ==
    IF idx >= Len(pat) THEN best
    ELSE LET b == At(pat, idx)
             count == rarest_count(pat, b)
         IN  rarest_byte_loop(pat, idx + 1,
                IF count < best.count
                THEN [byte |-> b, idx |-> idx, count |-> count]
                ELSE best)

rarest_byte(pat) ==
    IF pat = <<>> THEN [byte |-> 0, idx |-> 0, count |-> 0]
    ELSE rarest_byte_loop(pat, 0,
            [byte |-> At(pat, 0), idx |-> 0, count |-> rarest_count(pat, At(pat, 0))])

(* LutShort::build. *)
build_state(pat) ==
    LET len == Len(pat)
        rarest == rarest_byte(pat)
        sig == rarest.byte
    IN  [pattern |-> [k \in 1..8 |-> IF k <= Min(len, 8) THEN pat[k] ELSE 0],
         len |-> len,
         sig |-> sig,
         sig_index |-> rarest.idx,
         lut_lo |-> [k \in 1..16 |-> IF k - 1 = sig % 16 THEN 255 ELSE 0],
         lut_hi |-> [k \in 1..16 |-> IF k - 1 = sig \div 16 THEN 255 ELSE 0]]

matches_at(state, t, pos) ==
    IF pos + state.len > Len(t) THEN FALSE
    ELSE SubSeq(t, pos + 1, pos + state.len) = SubSeq(state.pattern, 1, state.len)

(* _mm_loadu_si128 of the 16 bytes at bytes[base..]. *)
_mm_loadu_si128(bytes, base) == [k \in 1..16 |-> bytes[base + k]]

(* The movemask of the lanes whose byte has the signature's two nibbles. *)
lut_eq_mask(state, chunk) ==
    LET mask_0f == _mm_set1_epi8(15)
        lo == _mm_and_si128(chunk, mask_0f)
        hi == _mm_and_si128(_mm_srli_epi16(chunk, 4), mask_0f)
        lo_mask == _mm_shuffle_epi8(state.lut_lo, lo)
        hi_mask == _mm_shuffle_epi8(state.lut_hi, hi)
        eq == _mm_and_si128(lo_mask, hi_mask)
    IN  _mm_movemask_epi8(eq)

(* The `while mask != 0` loop: the candidates of a block, lowest bit first. *)
RECURSIVE scan_candidates(_, _, _, _)
scan_candidates(state, t, base, mask) ==
    IF mask = 0 THEN None
    ELSE LET bit == trailing_zeros(mask)
             rest == mask - 2 ^ bit
             cand == base + bit
             start == cand - state.sig_index
         IN  IF cand < state.sig_index THEN scan_candidates(state, t, base, rest)
             ELSE IF start + state.len <= Len(t) /\ matches_at(state, t, start)
             THEN Some(start)
             ELSE scan_candidates(state, t, base, rest)

scan_block(state, t, base, limit) ==
    LET mask == lut_eq_mask(state, _mm_loadu_si128(t, base))
    IN  scan_candidates(state, t, base,
            IF limit < 16 THEN mask % (2 ^ limit) ELSE mask)

scan_tail_nothing(state, t, base, rem) == None

scan_tail(state, t, base, rem) ==
    LET fill == (state.sig + 1) % 256
        tmp == [k \in 1..16 |-> IF k <= rem THEN t[base + k] ELSE fill]
        mask == lut_eq_mask(state, _mm_loadu_si128(tmp, 0))
    IN  scan_candidates(state, t, base, mask % (2 ^ rem))

(* The `for block in 0..4` loop of one 64-byte step. *)
RECURSIVE find_ssse3_blocks(_, _, _, _)
find_ssse3_blocks(state, t, i, block) ==
    IF block >= 4 THEN None
    ELSE LET base == i + block * 16
             found == scan_candidates(state, t, base,
                          lut_eq_mask(state, _mm_loadu_si128(t, base)))
         IN  IF found /= None THEN found
             ELSE find_ssse3_blocks(state, t, i, block + 1)

(* `while i + 16 <= n`, then the tail. *)
RECURSIVE find_ssse3_loop16(_, _, _)
find_ssse3_loop16(state, t, i) ==
    IF i + 16 <= Len(t)
    THEN LET found == scan_block(state, t, i, 16)
         IN  IF found /= None THEN found ELSE find_ssse3_loop16(state, t, i + 16)
    ELSE IF i < Len(t) THEN scan_tail(state, t, i, Len(t) - i)
    ELSE None

(* `while i + 64 <= n`, then the 16-byte loop. *)
RECURSIVE find_ssse3_loop64(_, _, _)
find_ssse3_loop64(state, t, i) ==
    IF i + 64 <= Len(t)
    THEN LET found == find_ssse3_blocks(state, t, i, 0)
         IN  IF found /= None THEN found ELSE find_ssse3_loop64(state, t, i + 64)
    ELSE find_ssse3_loop16(state, t, i)

(* The `m == 1` scan for state.pattern[0]. *)
RECURSIVE find_ssse3_single(_, _, _)
find_ssse3_single(target, t, i) ==
    IF i >= Len(t) THEN None
    ELSE IF At(t, i) = target THEN Some(i)
    ELSE find_ssse3_single(target, t, i + 1)

find_ssse3(state, t, pat) ==
    IF state.len = 0 THEN Some(0)
    ELSE IF state.len > 8 THEN naive_find_scalar(t, pat)
    ELSE IF state.len > Len(t) THEN None
    ELSE IF state.len = 1 THEN find_ssse3_single(state.pattern[1], t, 0)
    ELSE find_ssse3_loop64(state, t, 0)

(* LutShort::find_bytes(config, state, text). *)
LutShort_find_bytes(config, state, t) == find_ssse3(state, t, config)

(* The kernel as a state machine: a text and a pattern are fixed, then the
   state is built and find_bytes is called once. *)
InitLut ==
    /\ text \in LutTexts
    /\ pattern \in LutPatterns
    /\ kernel = "naive"
    /\ SearchIdle
    /\ LikeIdle
    /\ ExtIdle

Call_LutShort_find_bytes ==
    CanCall /\ Returned("LutShort::find_bytes",
                        LutShort_find_bytes(pattern, build_state(pattern), text))

NextLut == Call_LutShort_find_bytes

SpecLut == InitLut /\ [][NextLut]_vars

LutCalled == call.op = "LutShort::find_bytes"

(* The offset of the text byte under the signature byte of the smallest
   occurrence. *)
LutSignatureOffset == call.ret[1] + rarest_byte(pattern).idx

(* C21: LutShort::find_bytes returns what naive_find_scalar returns, the
   smallest occurrence or None, for patterns of every length class and
   wherever the signature byte of the occurrence lies: in a 64-byte step,
   in a 16-byte step or in the padded tail. *)
C21_LutShortIsNaive ==
    LutCalled =>
        /\ call.ret = naive_find_scalar(text, pattern)
        /\ call.ret = FirstOccurrence(text, pattern)

(* A pattern of 2..8 bytes was found with its signature byte in the tail
   of a text that has a 64-byte step, after candidates that failed. *)
C21_Witness ==
    /\ LutCalled
    /\ Len(pattern) \in 2..8
    /\ Len(text) > 64
    /\ call.ret /= None
    /\ LutSignatureOffset >= 64
    /\ Len(text) - LutSignatureOffset <= Len(text) % 16
    /\ \E k \in 0..63 : At(text, k) = rarest_byte(pattern).byte

----------------------------------------------------------------------------
(* fftstr.rs: the FFT kernels FftStr0 and FftStr1.  Their field values are *)
(* u32, u64 and u128 numbers; a number is written here as its bytes, least *)
(* significant first and without zero bytes at the top, so that 0 is <<>>  *)
(* and a width of w bytes keeps the first w of them.                       *)

RECURSIVE Big(_)
Big(n) == IF n = 0 THEN <<>> ELSE <<n % 256>> \o Big(n \div 256)

RECURSIVE Trim(_)
Trim(a) ==
    IF a = <<>> THEN <<>>
    ELSE IF a[Len(a)] = 0 THEN Trim(SubSeq(a, 1, Len(a) - 1))
    ELSE a

ByteOf(a, k) == IF k <= Len(a) THEN a[k] ELSE 0

RECURSIVE big_add_loop(_, _, _, _)
big_add_loop(a, b, k, carry) ==
    IF k > Len(a) /\ k > Len(b) THEN (IF carry = 0 THEN <<>> ELSE <<carry>>)
    ELSE LET sum == ByteOf(a, k) + ByteOf(b, k) + carry
         IN  <<sum % 256>> \o big_add_loop(a, b, k + 1, sum \div 256)

BigAdd(a, b) == big_add_loop(a, b, 1, 0)

RECURSIVE big_less_loop(_, _, _)
big_less_loop(a, b, k) ==
    IF k = 0 THEN FALSE
    ELSE IF a[k] /= b[k] THEN a[k] < b[k]
    ELSE big_less_loop(a, b, k - 1)

BigLess(a, b) ==
    IF Len(a) /= Len(b) THEN Len(a) < Len(b) ELSE big_less_loop(a, b, Len(a))

(* a - b for a >= b. *)
RECURSIVE big_sub_loop(_, _, _, _)
big_sub_loop(a, b, k, borrow) ==
    IF k > Len(a) THEN <<>>
    ELSE LET diff == a[k] - ByteOf(b, k) - borrow
         IN  IF diff < 0 THEN <<diff + 256>> \o big_sub_loop(a, b, k + 1, 1)
             ELSE <<diff>> \o big_sub_loop(a, b, k + 1, 0)

BigSub(a, b) == Trim(big_sub_loop(a, b, 1, 0))

(* a times one byte. *)
RECURSIVE big_scale_loop(_, _, _, _)
big_scale_loop(a, byte, k, carry) ==
    IF k > Len(a) THEN Big(carry)
    ELSE LET product == a[k] * byte + carry
         IN  <<product % 256>> \o big_scale_loop(a, byte, k + 1, product \div 256)

RECURSIVE big_mul_loop(_, _, _)
big_mul_loop(a, b, k) ==
    IF k > Len(b) THEN <<>>
    ELSE BigAdd(Trim(big_scale_loop(a, b[k], 1, 0)),
                LET rest == big_mul_loop(a, b, k + 1)
                IN  IF rest = <<>> THEN <<>> ELSE <<0>> \o rest)

BigMul(a, b) == IF a = <<>> \/ b = <<>> THEN <<>> ELSE big_mul_loop(a, b, 1)

(* 2^(8 * w). *)
BigPow256(w) == [k \in 1..(w + 1) |-> IF k = w + 1 THEN 1 ELSE 0]

(* `a as uN` for a width of w bytes, and a >> (8 * w). *)
Truncate(a, w) == Trim(SubSeq(a, 1, Min(Len(a), w)))

ShiftRightBytes(a, w) == SubSeq(a, w + 1, Len(a))

wrapping_add(a, b, w) == Truncate(BigAdd(a, b), w)

wrapping_sub(a, b, w) ==
    IF BigLess(a, b) THEN BigSub(BigAdd(a, BigPow256(w)), b) ELSE BigSub(a, b)

wrapping_mul(a, b, w) == Truncate(BigMul(a, b), w)

(* 2^k. *)
BigPow2(k) == [i \in 1..(k \div 8 + 1) |-> IF i = k \div 8 + 1 THEN 2 ^ (k % 8) ELSE 0]

(* a % m, by taking m * 2^k away for k = bits, ..., 0 where it fits. *)
RECURSIVE big_rem_loop(_, _, _)
big_rem_loop(a, m, k) ==
    LET shifted == BigMul(m, BigPow2(k))
        rest == IF BigLess(a, shifted) THEN a ELSE BigSub(a, shifted)
    IN  IF k = 0 \/ Len(rest) < 0 THEN rest ELSE big_rem_loop(rest, m, k - 1)

BigRem(a, m) ==
    IF BigLess(a, m) THEN a ELSE big_rem_loop(a, m, 8 * (Len(a) - Len(m) + 1))

(* The three field value types.  Value0 is a u64 modulo 2^32 + 1, Value1 a
   u128 modulo 2^64 + 1, Value2 a u32 modulo 2013265921. *)
Values == {"Value0", "Value1", "Value2"}

Value0_M_BASE == BigAdd(BigPow256(4), Big(1))

Value1_M_BASE == BigAdd(BigPow256(8), Big(1))

Value2_M_BASE == Big(2013265921)

(* 0xFFFFFFFFFFFFFFFF / 2013265921 + 1 = 9162596894. *)
Value2_FASTMOD_M == <<30, 34, 34, 34, 2>>

(* Value0::mod_u64: the low 32 bits minus the high 32 bits, plus M_BASE
   when that is negative. *)
Value0_mod_u64(value) ==
    LET a == Truncate(value, 4)
        b == ShiftRightBytes(value, 4)
    IN  IF BigLess(a, b) THEN BigSub(BigAdd(a, Value0_M_BASE), b) ELSE BigSub(a, b)

Value1_mod_u128(value) ==
    LET a == Truncate(value, 8)
        b == ShiftRightBytes(value, 8)
    IN  IF BigLess(a, b) THEN BigSub(BigAdd(a, Value1_M_BASE), b) ELSE BigSub(a, b)

(* Value2::fastmod_u32: ((FASTMOD_M * value mod 2^64) * M_BASE) >> 64. *)
Value2_fastmod_u32(value) ==
    LET lowbits == wrapping_mul(Value2_FASTMOD_M, value, 8)
    IN  Truncate(ShiftRightBytes(BigMul(lowbits, Value2_M_BASE), 8), 4)

Value2_mod_u64(value) == Truncate(BigRem(value, Value2_M_BASE), 4)

Value0_mul(a, b) ==
    LET product == BigMul(a, b)
        res == Truncate(product, 8)
        overflow == ShiftRightBytes(product, 8)
    IN  Value0_mod_u64(wrapping_add(res, overflow, 8))

Value1_mul(a, b) ==
    LET res == BigMul(Truncate(a, 8), Truncate(b, 8))
        high_a == ShiftRightBytes(a, 8)
        high_b == ShiftRightBytes(b, 8)
    IN  IF high_a /= <<>> /\ high_b /= <<>> THEN Big(1)
        ELSE Value1_mod_u128(res)

(* impl Add, Sub, Mul for V. *)
V_add(V, a, b) ==
    CASE V = "Value0" -> Value0_mod_u64(wrapping_add(a, b, 8))
      [] V = "Value1" -> Value1_mod_u128(wrapping_add(a, b, 16))
      [] V = "Value2" -> Value2_fastmod_u32(wrapping_add(a, b, 4))

V_sub(V, a, b) ==
    CASE V = "Value0" ->
            Value0_mod_u64(wrapping_sub(wrapping_add(a, Value0_M_BASE, 8), b, 8))
      [] V = "Value1" ->
            Value1_mod_u128(wrapping_sub(wrapping_add(a, Value1_M_BASE, 16), b, 16))
      [] V = "Value2" ->
            Value2_fastmod_u32(wrapping_sub(wrapping_add(Value2_M_BASE, a, 4), b, 4))

V_mul(V, a, b) ==
    CASE V = "Value0" -> Value0_mul(a, b)
      [] V = "Value1" -> Value1_mul(a, b)
      [] V = "Value2" -> Value2_mod_u64(BigMul(a, b))

(* impl FftValue for V. *)
V_OMEGA(V) ==
    CASE V = "Value0" -> Big(2)
      [] V = "Value1" -> Big(2)
      [] V = "Value2" -> Big(1985266761)

(* 2147483649 is 2^31 + 1 and 9223372036854775809 is 2^63 + 1. *)
V_INV_OMEGA(V) ==
    CASE V = "Value0" -> BigAdd(BigPow2(31), Big(1))
      [] V = "Value1" -> BigAdd(BigPow2(63), Big(1))
      [] V = "Value2" -> Big(1885204058)

(* OMEGA_POWER is 2^6, 2^7 and 2^27; this is its exponent. *)
V_LOG2_OMEGA_POWER(V) ==
    CASE V = "Value0" -> 6
      [] V = "Value1" -> 7
      [] V = "Value2" -> 27

V_from_u64(V, value) ==
    CASE V = "Value0" -> Value0_mod_u64(value)
      [] V = "Value1" -> Value1_mod_u128(value)
      [] V = "Value2" -> Value2_mod_u64(value)

V_from_base(V, value) == V_from_u64(V, value)

V_mod_higher(V, value) == V_from_u64(V, value)

(* The width in bytes of V::Higher and of V::Base. *)
V_higher_width(V) == IF V = "Value1" THEN 16 ELSE 8

V_base_width(V) ==
    CASE V = "Value0" -> 8
      [] V = "Value1" -> 16
      [] V = "Value2" -> 4

V_M_BASE(V) ==
    CASE V = "Value0" -> Value0_M_BASE
      [] V = "Value1" -> Value1_M_BASE
      [] V = "Value2" -> Value2_M_BASE

V_add_higher(V, a, b) == wrapping_add(a, b, V_higher_width(V))

V_sub_higher(V, a, b) == wrapping_sub(a, b, V_higher_width(V))

V_shl1(V, a) == wrapping_add(a, a, V_higher_width(V))

V_twice_m(V) == BigAdd(V_M_BASE(V), V_M_BASE(V))

V_m_minus(V, value) == wrapping_sub(V_M_BASE(V), value, V_base_width(V))

(* Fft::fast_pow; pw is small enough to be written as a number. *)
RECURSIVE fast_pow(_, _, _, _)
fast_pow(V, base, pw, res) ==
    IF Forced(<<base, res>>) /\ pw /= 0
    THEN fast_pow(V, V_mul(V, base, base), pw \div 2,
                  IF pw % 2 = 1 THEN V_mul(V, base, res) ELSE res)
    ELSE res

(* Fft::get_twiddles: res[i] = res[i - 1] * t. *)
RECURSIVE get_twiddles_loop(_, _, _, _)
get_twiddles_loop(V, size, t, res) ==
    IF Len(res) >= size THEN res
    ELSE get_twiddles_loop(V, size, t, Append(res, V_mul(V, res[Len(res)], t)))

get_twiddles(V, size, t) ==
    IF size = 0 THEN <<>> ELSE get_twiddles_loop(V, size, t, <<V_from_u64(V, Big(1))>>)

(* OMEGA_POWER >> log2n. *)
get_p(V, log2n) ==
    IF log2n > V_LOG2_OMEGA_POWER(V) THEN 0 ELSE 2 ^ (V_LOG2_OMEGA_POWER(V) - log2n)

Fft_new(V, log2n) ==
    LET n == 2 ^ log2n
        omega == V_from_base(V, V_OMEGA(V))
        inv_omega == V_from_base(V, V_INV_OMEGA(V))
        one == V_from_u64(V, Big(1))
        phi == fast_pow(V, omega, get_p(V, log2n), one)
        iphi == fast_pow(V, inv_omega, get_p(V, log2n), one)
    IN  [log2n |-> log2n, n |-> n,
         twiddles |-> get_twiddles(V, n, V_from_base(V, phi)),
         itwiddles |-> get_twiddles(V, n, V_from_base(V, iphi))]

(* The butterflies, on out = x[at..]. *)
ct_dif_bf2(V, x, at, s, w) ==
    LET a == At(x, at)
        b == At(x, at + s)
    IN  [x EXCEPT ![at + 1] = V_add(V, a, b),
                  ![at + s + 1] = V_mul(V, V_sub(V, a, b), w)]

ct_dit_bf2(V, x, at, s, w) ==
    LET a == At(x, at)
        b == V_mul(V, At(x, at + s), w)
    IN  [x EXCEPT ![at + 1] = V_add(V, a, b),
                  ![at + s + 1] = V_sub(V, a, b)]

(* `for k in 0..l` of fft (inverse FALSE) and of ifft (inverse TRUE). *)
RECURSIVE fft_k_loop(_, _, _, _, _, _, _, _)
fft_k_loop(V, f, inverse, x, base, j, s, k) ==
    IF Forced(x) /\ k < 2 ^ j
    THEN LET index == (k * 2 ^ s) % f.n
         IN  fft_k_loop(V, f, inverse,
                        IF inverse
                        THEN ct_dit_bf2(V, x, base + k, 2 ^ j, At(f.itwiddles, index))
                        ELSE ct_dif_bf2(V, x, base + k, 2 ^ j, At(f.twiddles, index)),
                        base, j, s, k + 1)
    ELSE x

(* `for i in 0..(1 << s)`. *)
RECURSIVE fft_i_loop(_, _, _, _, _, _, _)
fft_i_loop(V, f, inverse, x, j, s, i) ==
    IF Forced(x) /\ i < 2 ^ s
    THEN fft_i_loop(V, f, inverse,
                    fft_k_loop(V, f, inverse, x, i * 2 ^ (j + 1), j, s, 0), j, s, i + 1)
    ELSE x

(* `for jp in 0..self.log2n`: j runs down in fft and up in ifft. *)
RECURSIVE fft_jp_loop(_, _, _, _, _)
fft_jp_loop(V, f, inverse, x, jp) ==
    IF Forced(x) /\ jp < f.log2n
    THEN LET j == IF inverse THEN jp ELSE f.log2n - jp - 1
             s == f.log2n - j - 1
         IN  fft_jp_loop(V, f, inverse, fft_i_loop(V, f, inverse, x, j, s, 0), jp + 1)
    ELSE x

fft(V, f, x) == fft_jp_loop(V, f, FALSE, x, 0)

ifft(V, f, x) == fft_jp_loop(V, f, TRUE, x, 0)

(* FftConfig::new: the pattern with the wildcard byte '_'. *)
FftConfig(p) == [pattern |-> p, wildcard |-> FftWildcard]

(* `for i in 0..pattern_size` of p0: p0[i + 1] = p0[i] + c * c * active * n. *)
RECURSIVE p0_loop(_, _, _, _, _)
p0_loop(V, n, pat, wildcard, p0) ==
    LET i == Len(p0) - 1
    IN  IF i >= Len(pat) THEN p0
        ELSE LET c == At(pat, i)
                 active == IF c # wildcard THEN 1 ELSE 0
                 value == BigMul(Big(c * c * active), Big(n))
             IN  p0_loop(V, n, pat, wildcard,
                         Append(p0, V_add(V, At(p0, i), V_from_u64(V, value))))

ImplActual_new(V, log2n, pat, wildcard) ==
    LET n == 2 ^ log2n
        pattern_size == Len(pat)
        c(i) == At(pat, pattern_size - i - 1)
        active(i) == IF c(i) # wildcard THEN 1 ELSE 0
        p1 == [k \in 1..n |-> IF k <= pattern_size
                              THEN V_from_u64(V, Big(active(k - 1))) ELSE <<>>]
        p2 == [k \in 1..n |-> IF k <= pattern_size
                              THEN V_from_u64(V, Big(c(k - 1) * active(k - 1))) ELSE <<>>]
    IN  IF get_p(V, log2n) = 0 THEN FftPanic("invalid fft parameters")
        ELSE IF pattern_size * 3 > n THEN FftPanic("assertion failed")
        ELSE LET Self(f, p0) ==
                     [panicked |-> FALSE, V |-> V, pattern_size |-> pattern_size, n |-> n,
                      p0 |-> [k \in 1..n |-> IF k <= Len(p0) THEN p0[k] ELSE <<>>],
                      p1 |-> fft(V, f, p1), p2 |-> fft(V, f, p2), fft |-> f]
             IN  Self(Fft_new(V, log2n),
                      p0_loop(V, n, pat, wildcard, <<V_from_u64(V, <<>>)>>))

(* ImplActual::compute: the two products of one block, t1 and t2. *)
compute(impl, tt) ==
    LET V == impl.V
        t1 == [k \in 1..impl.n |-> IF k <= Len(tt)
                                   THEN V_from_u64(V, Big(tt[k] * tt[k])) ELSE <<>>]
        t2 == [k \in 1..impl.n |-> IF k <= Len(tt)
                                   THEN V_from_u64(V, Big(tt[k])) ELSE <<>>]
        f1 == fft(V, impl.fft, t1)
        f2 == fft(V, impl.fft, t2)
    IN  [t1 |-> ifft(V, impl.fft, [k \in 1..impl.n |-> V_mul(V, f1[k], impl.p1[k])]),
         t2 |-> ifft(V, impl.fft, [k \in 1..impl.n |-> V_mul(V, f2[k], impl.p2[k])])]

(* `for j in 0..max_j` with find_first's callback: the first j of the
   block where lhs == rhs. *)
RECURSIVE iterate_j_loop(_, _, _, _, _)
iterate_j_loop(impl, tt, t, max_j, j) ==
    IF j >= max_j THEN <<>>
    ELSE LET V == impl.V
             idx == j + impl.pattern_size - 1
             lhs == V_mod_higher(V, V_sub_higher(V,
                        V_add_higher(V, At(t.t1, idx), V_twice_m(V)),
                        V_shl1(V, At(t.t2, idx))))
             remaining == Len(tt) - j
             p0_idx == Min(remaining, impl.pattern_size)
             rhs == V_m_minus(V, At(impl.p0, p0_idx))
         IN  IF lhs = rhs THEN <<j>> ELSE iterate_j_loop(impl, tt, t, max_j, j + 1)

(* `while offset < limit`: one block of n + 1 - pattern_size bytes a turn. *)
RECURSIVE iterate_loop(_, _, _)
iterate_loop(impl, t, offset) ==
    LET ts == impl.n + 1 - impl.pattern_size
        matchable == ts - impl.pattern_size + 1
        limit == Len(t) - impl.pattern_size + 1
        end == Min(offset + ts, Len(t))
        tt == SubSeq(t, offset + 1, end)
        remaining == Max(Len(tt) - impl.pattern_size, 0) + 1
        max_j == Min(matchable, remaining)
        block(found) == IF found # <<>> THEN <<offset + found[1]>>
                        ELSE iterate_loop(impl, t, offset + matchable)
    IN  IF offset >= limit THEN <<>>
        ELSE block(iterate_j_loop(impl, tt, compute(impl, tt), max_j, 0))

(* ImplActual::find_first through ImplActual::iterate. *)
find_first(impl, t) ==
    IF Len(t) < impl.pattern_size THEN <<>> ELSE iterate_loop(impl, t, 0)

FftStr0_build(config) ==
    LET required == Len(config.pattern) * 3
        log2n == log2ceil(required)
    IN  IF required <= 1 THEN FftPanic("pattern size too small")
        ELSE IF log2n >= 12 THEN FftPanic("pattern too large for fft size")
        ELSE ImplActual_new(IF log2n < 7 THEN "Value0" ELSE "Value1",
                            log2n, config.pattern, config.wildcard)

FftStr1_build(config) ==
    LET required == Len(config.pattern) * 3
        log2n == log2ceil(required)
    IN  IF required <= 1 THEN FftPanic("pattern size too small")
        ELSE IF log2n > 27 THEN FftPanic("pattern too large for fft size")
        ELSE ImplActual_new("Value2", log2n, config.pattern, config.wildcard)

(* Returned by a call whose build panicked. *)
BuildPanicked == <<-2>>

(* find_bytes of FftStr0 and of FftStr1, on the state their build made. *)
Fft_find_bytes(config, state, t) ==
    IF state.panicked THEN BuildPanicked ELSE find_first(state, t)

FftStr0_find_bytes(config, t) == Fft_find_bytes(config, FftStr0_build(config), t)

FftStr1_find_bytes(config, t) == Fft_find_bytes(config, FftStr1_build(config), t)

(* The texts: a short text over {a, b}, alone or after a run of b long
   enough for the text to take more than one block. *)
FftBytes == {97, 98}

FftPadsBefore == {0, 7}

FftTexts(pads, n) ==
    {Repeat(98, k) \o core : k \in pads, core \in SeqsUpTo(FftBytes, n)}

(* The patterns: over a and the wildcard byte. *)
FftPatterns(n) == SeqsUpTo({97, FftWildcard}, n)

(* Patterns with the byte 0, whose square adds nothing to p0, and texts
   with the bytes 0 and with the bytes of a two-byte char. *)
FftZeroPatterns == {<<0>>, <<0, FftWildcard>>, <<0, 97>>, <<97, FftWildcard>>}

FftOtherTexts ==
    {<<0>>, <<0, 97>>, <<97, 0>>, <<195, 169>>, <<97, 195, 169>>, <<169, 97>>}

(* The short texts with every pattern; the texts of more than one block
   with the patterns short enough for the block to be that small; the
   patterns and the texts with other bytes. *)
InitFft ==
    /\ \/ /\ text \in FftTexts({0}, MaxFftCoreLen)
          /\ pattern \in FftPatterns(MaxFftPatLen)
       \/ /\ text \in FftTexts(FftPadsBefore, MaxFftCoreLen - 1)
          /\ pattern \in FftPatterns(MaxFftPatLen - 1)
       \/ /\ text \in FftOtherTexts
          /\ pattern \in FftZeroPatterns
    /\ kernel = "fftstr0"
    /\ SearchIdle
    /\ LikeIdle
    /\ ExtIdle

Call_FftStr0_find_bytes ==
    CanCall /\ Returned("FftStr0::find_bytes",
                        FftStr0_find_bytes(FftConfig(pattern), text))

Call_FftStr1_find_bytes ==
    CanCall /\ Returned("FftStr1::find_bytes",
                        FftStr1_find_bytes(FftConfig(pattern), text))

NextFft == Call_FftStr0_find_bytes \/ Call_FftStr1_find_bytes

SpecFft == InitFft /\ [][NextFft]_vars

FftCalled == call.op \in {"FftStr0::find_bytes", "FftStr1::find_bytes"}

(* C22: for every pattern that FftStr0 or FftStr1 accepts at build and every
   text, find_bytes returns the smallest offset where every pattern byte is
   the wildcard byte or equals the text byte under it, and None when there
   is no such offset; patterns of wildcard bytes only and texts of more than
   one block included. *)
C22_FftFindsFirstWildcardMatch ==
    (FftCalled /\ call.ret /= BuildPanicked) => call.ret = FftFirstMatch(text, pattern)

(* The kernel of the call made. *)
FftKernelCalled == IF call.op = "FftStr0::find_bytes" THEN "fftstr0" ELSE "fftstr1"

(* The transforms over big numbers return what FftStr_find_bytes gives
   for the kernel in find_bytes and in like_match, and build panics where
   FftStr_build does. *)
FftFindBytesByValue ==
    FftCalled =>
        IF build_panics(FftKernelCalled, pattern) THEN call.ret = BuildPanicked
        ELSE call.ret = FftStr_find_bytes(FftKernelCalled, pattern, text)

----------------------------------------------------------------------------
(* bench_shared.rs: the index-accelerated LIKE executors                   *)

MaxAccelTables == 2
MaxAccelRows == 2

FM_SEPARATOR == 31

FM_SENTINEL == 0

(* str::split(ch): the pieces between the occurrences of ch, the empty
   ones included. *)
RECURSIVE split_loop(_, _, _, _)
split_loop(p, ch, i, piece) ==
    IF i >= Len(p) THEN <<piece>>
    ELSE IF At(p, i) = ch THEN <<piece>> \o split_loop(p, ch, i + 1, <<>>)
    ELSE split_loop(p, ch, i + 1, Append(piece, At(p, i)))

split(p, ch) == split_loop(p, ch, 0, <<>>)

NonEmpty(piece) == piece /= <<>>

ends_with(t, lit) ==
    Len(lit) <= Len(t) /\ SubSeq(t, Len(t) - Len(lit) + 1, Len(t)) = lit

SimpleLike(kind, lit) == [kind |-> kind, lit |-> lit]

simple_like_kind(p) ==
    LET literals == SelectSeq(split(p, PERCENT), NonEmpty)
        starts == starts_with(p, <<PERCENT>>)
        ends == ends_with(p, <<PERCENT>>)
    IN  IF \E k \in DOMAIN p : p[k] = UNDERSCORE THEN SimpleLike("Complex", <<>>)
        ELSE IF Len(literals) = 0 THEN SimpleLike("All", <<>>)
        ELSE IF Len(literals) > 1 THEN SimpleLike("Complex", <<>>)
        ELSE IF starts /\ ends THEN SimpleLike("Contains", literals[1])
        ELSE IF starts THEN SimpleLike("Suffix", literals[1])
        ELSE IF ends THEN SimpleLike("Prefix", literals[1])
        ELSE SimpleLike("Exact", literals[1])

(* split_literals: the runs of bytes that are neither '%' nor '_'. *)
RECURSIVE split_literals_loop(_, _, _, _)
split_literals_loop(p, idx, start, literals) ==
    IF idx >= Len(p)
    THEN IF start /= None /\ start[1] < Len(p)
         THEN Append(literals, SubSeq(p, start[1] + 1, Len(p)))
         ELSE literals
    ELSE IF At(p, idx) = PERCENT \/ At(p, idx) = UNDERSCORE
    THEN split_literals_loop(p, idx + 1, None,
             IF start /= None /\ start[1] < idx
             THEN Append(literals, SubSeq(p, start[1] + 1, idx))
             ELSE literals)
    ELSE split_literals_loop(p, idx + 1, IF start = None THEN Some(idx) ELSE start,
                             literals)

split_literals(p) == split_literals_loop(p, 0, None, <<>>)

FmRow(table, data, start, end) ==
    [table |-> table, data |-> data, start |-> start, end |-> end]

(* The loops of build_fm_index over the tables and their rows; a row
   that holds the sentinel or the separator byte panics. *)
RECURSIVE build_fm_rows(_, _, _, _)
build_fm_rows(ds, ti, ri, acc) ==
    IF ti >= Len(ds.tables) THEN acc
    ELSE IF ri >= Len(At(ds.tables, ti).rows) THEN build_fm_rows(ds, ti + 1, 0, acc)
    ELSE LET bytes == At(At(ds.tables, ti).rows, ri).data
             start_offset == Len(acc.text)
         IN  IF \E k \in DOMAIN bytes : bytes[k] = FM_SENTINEL \/ bytes[k] = FM_SEPARATOR
             THEN [acc EXCEPT !.panic = Some("row contains reserved FM-index byte")]
             ELSE build_fm_rows(ds, ti, ri + 1,
                      [text |-> acc.text \o bytes \o <<FM_SEPARATOR>>,
                       rows |-> Append(acc.rows,
                                       FmRow(At(ds.tables, ti).name, bytes, start_offset,
                                             start_offset + Len(bytes))),
                       row_starts |-> Append(acc.row_starts, start_offset),
                       panic |-> None])

(* build_fm_index: the FmIndexDatabase, or the panic of the row loop. *)
FmBuildPanic(message) == [panicked |-> TRUE, message |-> message]

build_fm_index(ds) ==
    LET acc == build_fm_rows(ds, 0, 0, [text |-> <<>>, rows |-> <<>>,
                                        row_starts |-> <<>>, panic |-> None])
    IN  IF acc.panic /= None THEN FmBuildPanic(acc.panic[1])
        ELSE [panicked |-> FALSE,
              fm |-> FMIndex_new(acc.text, FM_SENTINEL, Some(FM_SEPARATOR)),
              rows |-> acc.rows,
              row_starts |-> acc.row_starts,
              byte_freq |-> [b \in Bytes |->
                                Cardinality({k \in DOMAIN acc.text :
                                                acc.text[k] = b /\ b /= FM_SEPARATOR})],
              max_range |-> Max(100000, Len(acc.text) \div 100)]

(* FmIndexDatabase::row_index_for_pos: binary_search gives the row that
   starts at pos, or the one before the place pos would be inserted at. *)
row_index_for_pos(db, pos) ==
    LET starts == db.row_starts
        before == Cardinality({k \in DOMAIN starts : starts[k] < pos})
        found == \E k \in DOMAIN starts : starts[k] = pos
        idx == IF found THEN before ELSE before - 1
    IN  IF ~found /\ before = 0 THEN None
        ELSE IF pos < At(db.rows, idx).end THEN Some(idx)
        ELSE None

RowsOfTable(db, table_name) ==
    {k \in 0..(Len(db.rows) - 1) : At(db.rows, k).table = table_name}

count_all_rows(db, table_name) == Cardinality(RowsOfTable(db, table_name))

count_exact_rows(db, table_name, lit) ==
    Cardinality({k \in RowsOfTable(db, table_name) : At(db.rows, k).data = lit})

count_like_match_all(db, table_name, pat) ==
    Cardinality({k \in RowsOfTable(db, table_name) :
                    like_match(pat, "std", At(db.rows, k).data)})

(* rows_for_literal, the cache empty: the rows that hold a whole occurrence
   of the literal. *)
rows_for_literal(db, lit) ==
    LET range == backward_search(db.fm, lit)
        positions == FMIndex_search(db.fm, lit)
    IN  IF range = None THEN None
        ELSE IF range[1][2] - range[1][1] > db.max_range THEN None
        ELSE Some({k \in 0..(Len(db.rows) - 1) :
                      \E i \in DOMAIN positions :
                          /\ row_index_for_pos(db, positions[i]) = Some(k)
                          /\ positions[i] + Len(lit) <= At(db.rows, k).end})

literal_positions(db, lit) ==
    LET range == backward_search(db.fm, lit)
    IN  IF range = None THEN None
        ELSE IF range[1][2] - range[1][1] > db.max_range THEN None
        ELSE Some(FMIndex_search(db.fm, lit))

count_rows_with_literal(db, table_name, lit) ==
    LET rows == rows_for_literal(db, lit)
    IN  IF rows /= None
        THEN Cardinality(rows[1] \cap RowsOfTable(db, table_name))
        ELSE count_like_match_all(db, table_name,
                                  compile_pattern("std", <<PERCENT>> \o lit \o <<PERCENT>>))

count_rows_with_prefix(db, table_name, lit) ==
    LET positions == literal_positions(db, lit)
    IN  IF Len(lit) = 0 THEN count_all_rows(db, table_name)
        ELSE IF positions = None
        THEN count_like_match_all(db, table_name, compile_pattern("std", lit \o <<PERCENT>>))
        ELSE Cardinality({k \in RowsOfTable(db, table_name) :
                 \E i \in DOMAIN positions[1] :
                     /\ row_index_for_pos(db, positions[1][i]) = Some(k)
                     /\ positions[1][i] = At(db.rows, k).start
                     /\ starts_with(At(db.rows, k).data, lit)})

count_rows_with_suffix(db, table_name, lit) ==
    LET positions == literal_positions(db, lit)
    IN  IF Len(lit) = 0 THEN count_all_rows(db, table_name)
        ELSE IF positions = None
        THEN count_like_match_all(db, table_name, compile_pattern("std", <<PERCENT>> \o lit))
        ELSE Cardinality({k \in RowsOfTable(db, table_name) :
                 \E i \in DOMAIN positions[1] :
                     /\ row_index_for_pos(db, positions[1][i]) = Some(k)
                     /\ positions[1][i] + Len(lit) = At(db.rows, k).end
                     /\ ends_with(At(db.rows, k).data, lit)})

(* literal_rarity: the smallest frequency of the literal's bytes; no
   literal of split_literals is empty, for which the source has usize::MAX. *)
literal_rarity(lit, byte_freq) ==
    IF Len(lit) = 0 THEN Len(byte_freq) * 2 ^ 20
    ELSE CHOOSE m \in {byte_freq[lit[k]] : k \in DOMAIN lit} :
             \A k \in DOMAIN lit : m <= byte_freq[lit[k]]

RECURSIVE sort_by_rarity_insert(_, _, _)
sort_by_rarity_insert(sorted, lit, byte_freq) ==
    IF Len(sorted) = 0 THEN <<lit>>
    ELSE IF literal_rarity(lit, byte_freq) < literal_rarity(Head(sorted), byte_freq)
    THEN <<lit>> \o sorted
    ELSE <<Head(sorted)>> \o sort_by_rarity_insert(Tail(sorted), lit, byte_freq)

RECURSIVE sort_by_rarity(_, _)
sort_by_rarity(literals, byte_freq) ==
    IF Len(literals) = 0 THEN <<>>
    ELSE sort_by_rarity_insert(
             sort_by_rarity(SubSeq(literals, 1, Len(literals) - 1), byte_freq),
             literals[Len(literals)], byte_freq)

(* The Complex case of fm_like_search_table.  The literals are looked up
   rarest first and the first whose row set is unknown or empty ends the
   loop; the row sets that are left are intersected. *)
RECURSIVE fm_like_complex_loop(_, _, _, _, _, _)
fm_like_complex_loop(db, table_name, pat, literals, i, candidates) ==
    IF i >= Len(literals)
    THEN Cardinality({k \in candidates \cap RowsOfTable(db, table_name) :
                         like_match(pat, "std", At(db.rows, k).data)})
    ELSE LET set == rows_for_literal(db, At(literals, i))
         IN  IF set = None THEN count_like_match_all(db, table_name, pat)
             ELSE IF set[1] = {} THEN 0
             ELSE fm_like_complex_loop(db, table_name, pat, literals, i + 1,
                                       candidates \cap set[1])

fm_like_search_table(db, table_name, pat, pattern_str) ==
    LET simple == simple_like_kind(pattern_str)
        literals == split_literals(pattern_str)
    IN  CASE simple.kind = "All" -> count_all_rows(db, table_name)
          [] simple.kind = "Exact" -> count_exact_rows(db, table_name, simple.lit)
          [] simple.kind = "Contains" -> count_rows_with_literal(db, table_name, simple.lit)
          [] simple.kind = "Prefix" -> count_rows_with_prefix(db, table_name, simple.lit)
          [] simple.kind = "Suffix" -> count_rows_with_suffix(db, table_name, simple.lit)
          [] simple.kind = "Complex" ->
                IF Len(literals) = 0 THEN count_like_match_all(db, table_name, pat)
                ELSE fm_like_complex_loop(db, table_name, pat,
                         sort_by_rarity(literals, db.byte_freq), 0,
                         0..(Len(db.rows) - 1))

(* build_trigram_index: every row is a document, its id the row's index. *)
RECURSIVE build_trigram_rows(_, _, _, _)
build_trigram_rows(ds, ti, ri, acc) ==
    IF ti >= Len(ds.tables) THEN acc
    ELSE IF ri >= Len(At(ds.tables, ti).rows) THEN build_trigram_rows(ds, ti + 1, 0, acc)
    ELSE LET data == At(At(ds.tables, ti).rows, ri).data
         IN  build_trigram_rows(ds, ti, ri + 1,
                 [index |-> add(acc.index, data).index,
                  rows |-> Append(acc.rows,
                                  [table |-> At(ds.tables, ti).name, data |-> data])])

build_trigram_index(ds) ==
    build_trigram_rows(ds, 0, 0, [index |-> EmptyTrigramIndex, rows |-> <<>>])

(* max_by_key(|lit| lit.len()) over the literals of three bytes or more:
   the last of the longest. *)
longest_literal(literals) ==
    LET long == SelectSeq(literals, LAMBDA lit : Len(lit) >= 3)
    IN  IF Len(long) = 0 THEN None
        ELSE Some(long[CHOOSE k \in DOMAIN long :
                          /\ \A j \in DOMAIN long : Len(long[j]) <= Len(long[k])
                          /\ \A j \in DOMAIN long : j > k => Len(long[j]) < Len(long[k])])

trigram_like_search_table(db, table_name, pat, pattern_str) ==
    LET literal == longest_literal(split_literals(pattern_str))
        candidate_ids == search_literal(db.index, literal[1])
        all_rows == 0..(Len(db.rows) - 1)
        matched(ids) == {k \in ids : /\ At(db.rows, k).table = table_name
                                     /\ like_match(pat, "std", At(db.rows, k).data)}
    IN  IF literal /= None /\ candidate_ids /= None
        THEN Len(SelectSeq(candidate_ids[1], LAMBDA k : k \in matched(all_rows)))
        ELSE Cardinality(matched(all_rows))

(* The executors as a state machine: a dataset and a LIKE pattern string
   are fixed, the pattern is compiled for StdSearch and the indexes are
   built; an executor is then called on one table and returns its count. *)
AccelRowData == {<<>>, <<97, 98>>, <<97, 98, 97>>}

AccelRows == {Row(<<49>>, <<>>, data) : data \in AccelRowData}

(* Rows that hold the separator byte and the sentinel byte. *)
AccelReservedRows == {Row(<<49>>, <<>>, <<97, FM_SEPARATOR>>),
                      Row(<<49>>, <<>>, <<FM_SENTINEL>>)}

AccelDataSets ==
    {DataSet([i \in DOMAIN rss |-> Table(EngineTableName(i), rss[i])]) :
        rss \in SeqsUpTo(SeqsUpTo(AccelRows, MaxAccelRows), MaxAccelTables)}
    \cup {DataSet(<<Table(EngineTableName(1), <<Row(<<49>>, <<>>, <<97, 98>>), row>>)>>) :
             row \in AccelReservedRows}

(* The pattern strings: empty, "%", "_", exact, prefix, suffix, contains
   and complex ones, with literals shorter and longer than a trigram. *)
AccelPatternSources ==
    {<<>>, <<37>>, <<95>>, <<97>>, <<97, 98>>, <<97, 98, 97>>, <<98, 97, 98>>,
     <<97, 98, 37>>, <<97, 98, 97, 37>>, <<37, 98, 97>>, <<37, 97, 98, 97>>,
     <<37, 98, 37>>, <<37, 98, 97, 98, 37>>, <<97, 37, 97>>, <<97, 95, 97>>}

InitAccel ==
    /\ dataset \in AccelDataSets
    /\ like_src \in AccelPatternSources
    /\ like_options = DefaultOptions
    /\ kernel = "std"
    /\ like_pattern = compile_pattern(kernel, like_src)
    /\ like_text = <<>>
    /\ like_frame = IdleFrame
    /\ patterns = <<>>
    /\ exec = ExecIdle
    /\ text = <<>>
    /\ pattern = <<>>
    /\ SearchIdle
    /\ ArenaIdle /\ FmIdle /\ TriIdle

AccelReturned(op, table, found) ==
    /\ exec' = [ExecIdle EXCEPT !.op = op, !.pc = "done", !.table = table,
                                !.matches = <<found>>]
    /\ UNCHANGED <<dataset, patterns, coreVars, arenaVars, fmVars, triVars>>

AccelPanicked(op, table) ==
    /\ exec' = [ExecIdle EXCEPT !.op = op, !.pc = "panic", !.table = table]
    /\ UNCHANGED <<dataset, patterns, coreVars, arenaVars, fmVars, triVars>>

(* build_fm_index(&dataset), then fm_like_search_table on one table. *)
FmLikeSearchTableCall ==
    /\ exec.pc = "idle"
    /\ \E ti \in 0..(Len(dataset.tables) - 1) :
          LET db == build_fm_index(dataset)
          IN  IF db.panicked THEN AccelPanicked("fm_like_search_table", ti)
              ELSE AccelReturned("fm_like_search_table", ti,
                       fm_like_search_table(db, At(dataset.tables, ti).name,
                                            like_pattern, like_src))

TrigramLikeSearchTableCall ==
    /\ exec.pc = "idle"
    /\ \E ti \in 0..(Len(dataset.tables) - 1) :
          AccelReturned("trigram_like_search_table", ti,
              trigram_like_search_table(build_trigram_index(dataset),
                                        At(dataset.tables, ti).name, like_pattern, like_src))

NextAccel == FmLikeSearchTableCall \/ TrigramLikeSearchTableCall

SpecAccel == InitAccel /\ [][NextAccel]_vars

(* An executor was called and returned its count. *)
AccelCalled ==
    /\ exec.op \in {"fm_like_search_table", "trigram_like_search_table"}
    /\ exec.pc = "done"

(* build_fm_index panics exactly on the datasets with a row that holds a
   reserved byte. *)
FmBuildPanicsOnReservedByte ==
    (exec.op = "fm_like_search_table" /\ exec.pc /= "idle") =>
        (exec.pc = "panic" <=>
            \E ti \in DOMAIN dataset.tables : \E ri \in DOMAIN dataset.tables[ti].rows :
                \E k \in DOMAIN dataset.tables[ti].rows[ri].data :
                    dataset.tables[ti].rows[ri].data[k] \in {FM_SENTINEL, FM_SEPARATOR})

(* The rows of the table the executor was called on that like_match
   accepts. *)
LikeMatchCount ==
    LET rows == At(dataset.tables, exec.table).rows
    IN  Cardinality({k \in DOMAIN rows : like_match(like_pattern, "std", rows[k].data)})

(* C23: fm_like_search_table and trigram_like_search_table return, for
   every dataset, table and pattern string, the number of rows of the table
   that like_match accepts. *)
C23_AccelCountsAsLikeMatch == AccelCalled => exec.matches = <<LikeMatchCount>>

(* What the code does: the counts agree but for fm_like_search_table on
   the empty pattern string, which counts every row of the table. *)
AccelCountsUnlessEmptyPattern ==
    AccelCalled =>
        IF exec.op = "fm_like_search_table" /\ like_src = <<>>
        THEN exec.matches = <<Len(At(dataset.tables, exec.table).rows)>>
        ELSE exec.matches = <<LikeMatchCount>>

----------------------------------------------------------------------------
(* fasta.rs, dataset.rs: the FASTA loader                                  *)

MaxFastaLen == 5

GT == 62
SPACE == 32
LF == 10
CR == 13

(* str::from_utf8(bytes).is_ok(): the well-formed byte sequences of UTF-8. *)
RECURSIVE utf8_valid_from(_, _)
utf8_valid_from(b, i) ==
    IF i > Len(b) THEN TRUE
    ELSE LET c == b[i]
             cont(k) == i + k <= Len(b) /\ b[i + k] \in 128..191
             second(lo, hi) == i + 1 <= Len(b) /\ b[i + 1] \in lo..hi
         IN  IF c < 128 THEN utf8_valid_from(b, i + 1)
             ELSE IF c \in 194..223 THEN cont(1) /\ utf8_valid_from(b, i + 2)
             ELSE IF c = 224 THEN second(160, 191) /\ cont(2) /\ utf8_valid_from(b, i + 3)
             ELSE IF c \in 225..236 \/ c \in 238..239
             THEN cont(1) /\ cont(2) /\ utf8_valid_from(b, i + 3)
             ELSE IF c = 237 THEN second(128, 159) /\ cont(2) /\ utf8_valid_from(b, i + 3)
             ELSE IF c = 240
             THEN second(144, 191) /\ cont(2) /\ cont(3) /\ utf8_valid_from(b, i + 4)
             ELSE IF c \in 241..243
             THEN cont(1) /\ cont(2) /\ cont(3) /\ utf8_valid_from(b, i + 4)
             ELSE IF c = 244
             THEN second(128, 143) /\ cont(2) /\ cont(3) /\ utf8_valid_from(b, i + 4)
             ELSE FALSE

from_utf8_is_ok(b) == utf8_valid_from(b, 1)

(* Result<T, String>.  An error message is the sequence of the parts that
   format! puts together: the literal text and the formatted arguments. *)
Ok(value) == [ok |-> TRUE, value |-> value]

Err(message) == [ok |-> FALSE, message |-> message]

Lit(str) == [lit |-> str]

Arg(name, value) == [arg |-> name, value |-> value]

FastaEntry(id, desc, data) == [id |-> id, desc |-> desc, data |-> data]

(* slice.iter().position(|&b| b == byte), from index `from` on: the index
   of the first such byte, or the length. *)
RECURSIVE position_or_len(_, _, _)
position_or_len(b, byte, from) ==
    IF from >= Len(b) THEN Len(b)
    ELSE IF At(b, from) = byte THEN from
    ELSE position_or_len(b, byte, from + 1)

(* A panic that ends the call: no value is returned. *)
Panicked(message) == [ok |-> FALSE, panic |-> message]

IsPanic(ret) == "panic" \in DOMAIN ret

(* `arena.alloc_str(src)` in a loader whose locals are st: the arena of st
   afterwards, or the panic of alloc_layout. *)
stored(st, src) ==
    LET r == alloc_str(st.arena, src)
    IN  IF r.outcome = "ok" THEN [st EXCEPT !.arena = r.arena]
        ELSE [st EXCEPT !.result = Some(Panicked(r.outcome))]

(* The push of the pending entry, at a header line and at the end. *)
fasta_flush(st) ==
    IF st.current_header = None THEN st
    ELSE IF ~from_utf8_is_ok(st.current_seq_buf)
    THEN [st EXCEPT !.result =
             Some(Err(<<Lit("Invalid UTF-8 in sequence data for ID: "),
                        Arg("id", st.current_header[1][1])>>))]
    ELSE LET stored_seq == stored(st, st.current_seq_buf)
         IN  IF stored_seq.result /= None THEN stored_seq
             ELSE [stored_seq EXCEPT !.entries =
                      Append(@, FastaEntry(st.current_header[1][1],
                                           st.current_header[1][2],
                                           st.current_seq_buf))]

(* The branch of a line that starts with '>'. *)
fasta_header_line(st, line_content) ==
    LET header_text == SubSeq(line_content, 2, Len(line_content))
        space_pos == position_or_len(header_text, SPACE, 0)
        raw_id == SubSeq(header_text, 1, space_pos)
        raw_desc == SubSeq(header_text, space_pos + 2, Len(header_text))
        with_desc(stored_desc) ==
            IF stored_desc.result /= None THEN stored_desc
            ELSE [stored_desc EXCEPT !.current_header = Some(<<raw_id, raw_desc>>),
                                     !.current_seq_buf = <<>>]
        with_id(stored_id) ==
            IF stored_id.result /= None THEN stored_id
            ELSE with_desc(stored(stored_id, raw_desc))
        header(flushed) ==
            IF flushed.result /= None THEN flushed
            ELSE IF ~from_utf8_is_ok(raw_id)
            THEN [flushed EXCEPT !.result =
                     Some(Err(<<Lit("Invalid UTF-8 in FASTA Header ID")>>))]
            ELSE IF ~from_utf8_is_ok(raw_desc)
            THEN [flushed EXCEPT !.result =
                     Some(Err(<<Lit("Invalid UTF-8 in FASTA Description for ID: "),
                                Arg("id", raw_id)>>))]
            ELSE with_id(stored(flushed, raw_id))
    IN  header(fasta_flush(st))

fasta_data_line_kept_without_header(st, line_content) ==
    [st EXCEPT !.current_seq_buf = @ \o line_content]

(* The branch of any other line that is not empty. *)
fasta_data_line(st, line_content) ==
    IF st.current_header = None
    THEN [st EXCEPT !.result =
             Some(Err(<<Lit("Parse Error: Found sequence data before the first header (line starting with >)")>>))]
    ELSE [st EXCEPT !.current_seq_buf = @ \o line_content]

(* `while ptr < raw_bytes.len()`, one line a turn. *)
RECURSIVE parse_fasta_loop(_, _)
parse_fasta_loop(raw_bytes, st) ==
    IF st.result /= None THEN st
    ELSE IF st.ptr >= Len(raw_bytes) THEN st
    ELSE LET end == position_or_len(raw_bytes, LF, st.ptr)
             line == SubSeq(raw_bytes, st.ptr + 1, end)
             line_content == IF ends_with(line, <<CR>>)
                             THEN SubSeq(line, 1, Len(line) - 1) ELSE line
             after == IF Len(line_content) = 0 THEN st
                      ELSE IF line_content[1] = GT THEN fasta_header_line(st, line_content)
                      ELSE fasta_data_line(st, line_content)
         IN  parse_fasta_loop(raw_bytes, [after EXCEPT !.ptr = end + 1])

(* parse_fasta_into_arena(arena, raw_bytes): what the call gives (Ok, Err
   or the panic of the arena) and the arena afterwards. *)
parse_fasta_into_arena(inner, raw_bytes) ==
    LET after_loop(st) == IF st.result /= None THEN st ELSE fasta_flush(st)
        returned(last) ==
            IF last.result /= None THEN [result |-> last.result[1], arena |-> last.arena]
            ELSE [result |-> Ok(last.entries), arena |-> last.arena]
    IN  returned(after_loop(parse_fasta_loop(raw_bytes,
            [ptr |-> 0, entries |-> <<>>, current_header |-> None,
             current_seq_buf |-> <<>>, result |-> None, arena |-> inner])))

(* A path: what path.display() prints, the bytes of what
   path.file_name() gives as a string, and the bytes of what
   path.extension() gives as a str, None where there is none. *)
Path(display, file_name, extension) ==
    [display |-> display, file_name |-> file_name, extension |-> extension]

filename_from_path(path) ==
    IF path.file_name = None
    THEN Err(<<Lit("Missing filename for path "), Arg("path", path.display)>>)
    ELSE Ok(path.file_name[1])

(* load_fasta_table(arena, path): fs::read gave read, Ok(bytes) or Err;
   what the call gives and the arena afterwards. *)
load_fasta_table(inner, path, read) ==
    LET name == filename_from_path(path)
        rows(entries) == [k \in DOMAIN entries |->
                             Row(entries[k].id, entries[k].desc, entries[k].data)]
        table(parsed) ==
            IF ~parsed.result.ok THEN parsed
            ELSE IF ~name.ok THEN [result |-> name, arena |-> parsed.arena]
            ELSE [result |-> Ok(Table(name.value, rows(parsed.result.value))),
                  arena |-> parsed.arena]
    IN  IF ~read.ok
        THEN [result |-> Err(<<Lit("Failed to read FASTA file "),
                               Arg("path", path.display), Lit(": "),
                               Arg("io_error", read.message)>>),
              arena |-> inner]
        ELSE table(parse_fasta_into_arena(inner, read.value))

(* fs::read_to_string, fs::read having given read: bytes that are not
   UTF-8 are an error of the read. *)
read_to_string(read) ==
    IF read.ok /\ ~from_utf8_is_ok(read.value)
    THEN Err("stream did not contain valid UTF-8")
    ELSE read

(* load_text_table(arena, path): the file as one row, its name the id. *)
load_text_table(inner, path, read) ==
    LET raw_string == read_to_string(read)
        data == alloc_str(inner, raw_string.value)
        file_name == filename_from_path(path)
        id == alloc_str(data.arena, file_name.value)
    IN  IF ~raw_string.ok
        THEN [result |-> Err(<<Lit("Failed to read text file "),
                               Arg("path", path.display), Lit(": "),
                               Arg("io_error", raw_string.message)>>),
              arena |-> inner]
        ELSE IF data.outcome /= "ok"
        THEN [result |-> Panicked(data.outcome), arena |-> data.arena]
        ELSE IF ~file_name.ok THEN [result |-> file_name, arena |-> data.arena]
        ELSE IF id.outcome /= "ok"
        THEN [result |-> Panicked(id.outcome), arena |-> id.arena]
        ELSE [result |-> Ok(Table(file_name.value,
                                  <<Row(file_name.value, <<>>, raw_string.value)>>)),
              arena |-> id.arena]

(* str::to_ascii_lowercase. *)
to_ascii_lowercase(str) ==
    [k \in DOMAIN str |-> IF str[k] \in 65..90 THEN str[k] + 32 ELSE str[k]]

(* "fasta", "fa", "fna", "faa" and "fsa". *)
FastaExtensions ==
    {<<102, 97, 115, 116, 97>>, <<102, 97>>, <<102, 110, 97>>, <<102, 97, 97>>,
     <<102, 115, 97>>}

infer_source_kind(path) ==
    IF path.extension /= None /\ to_ascii_lowercase(path.extension[1]) \in FastaExtensions
    THEN "Fasta"
    ELSE "Text"

(* A source, with what reading its file gives. *)
Source(path, kind, read) == [path |-> path, kind |-> kind, read |-> read]

(* `for source in sources` of load_dataset: st holds the tables, the arena
   and the error or panic that ends the call. *)
RECURSIVE load_dataset_loop(_, _, _)
load_dataset_loop(sources, i, st) ==
    IF i >= Len(sources) \/ st.result /= None THEN st
    ELSE LET source == At(sources, i)
             pushed(table) ==
                 IF ~table.result.ok
                 THEN [st EXCEPT !.result = Some(table.result), !.arena = table.arena]
                 ELSE [st EXCEPT !.tables = Append(@, table.result.value),
                                 !.arena = table.arena]
         IN  load_dataset_loop(sources, i + 1,
                 pushed(IF source.kind = "Text"
                        THEN load_text_table(st.arena, source.path, source.read)
                        ELSE load_fasta_table(st.arena, source.path, source.read)))

load_dataset(inner, sources) ==
    LET returned(st) ==
            IF st.result /= None THEN [result |-> st.result[1], arena |-> st.arena]
            ELSE [result |-> Ok(DataSet(st.tables)), arena |-> st.arena]
    IN  returned(load_dataset_loop(sources, 0,
                     [tables |-> <<>>, arena |-> inner, result |-> None]))

(* load_dataset_from_paths: the kind of each source is inferred. *)
load_dataset_from_paths(inner, files) ==
    load_dataset(inner, [k \in DOMAIN files |->
                            Source(files[k].path, infer_source_kind(files[k].path),
                                   files[k].read)])

----------------------------------------------------------------------------
(* delimited.rs: the delimited loader                                      *)

MaxRecords == 3
MaxSources == 2

ByteLimit(max_bytes, current) == [max_bytes |-> max_bytes, current |-> current]

ByteLimit_new(max_bytes) == ByteLimit(max_bytes, 0)

ColumnSpec(name, index) == [name |-> name, index |-> index]

(* usize arithmetic, USIZE_MAX standing for usize::MAX: a + b overflows
   when a > USIZE_MAX - b. *)
usize_overflows(a, b) == a > USIZE_MAX - b

usize_saturating_add(a, b) == IF usize_overflows(a, b) THEN USIZE_MAX ELSE a + b

usize_wrapping_add(a, b) == IF usize_overflows(a, b) THEN a - (USIZE_MAX - b) - 1 ELSE a + b

(* ByteLimit::try_reserve: the limit afterwards, the answer, and the panic
   of `self.current += bytes` in a build with overflow checks (a debug
   build); a build without them (a release build) wraps. *)
try_reserve_always(limit, bytes, overflow_checks) ==
    [limit |-> [limit EXCEPT !.current = usize_wrapping_add(@, bytes)], ret |-> TRUE,
     panic |-> None]

try_reserve(limit, bytes, overflow_checks) ==
    IF usize_saturating_add(limit.current, bytes) > limit.max_bytes
    THEN [limit |-> limit, ret |-> FALSE, panic |-> None]
    ELSE IF usize_overflows(limit.current, bytes) /\ overflow_checks
    THEN [limit |-> limit, ret |-> FALSE, panic |-> Some("attempt to add with overflow")]
    ELSE [limit |-> [limit EXCEPT !.current = usize_wrapping_add(@, bytes)], ret |-> TRUE,
          panic |-> None]

(* record.get(index).unwrap_or(""). *)
record_get(record, index) == IF index < Len(record) THEN At(record, index) ELSE <<>>

RECURSIVE SumLens(_)
SumLens(fields) == IF Len(fields) = 0 THEN 0 ELSE Len(Head(fields)) + SumLens(Tail(fields))

(* The bytes of the selected columns of a record. *)
record_bytes(record, columns) ==
    SumLens([k \in DOMAIN columns |-> record_get(record, columns[k].index)])

(* `for (idx, spec) in columns.iter().enumerate()`: the value of each
   selected column is stored in the arena and pushed as a row. *)
RECURSIVE push_columns(_, _, _, _)
push_columns(record, columns, idx, st) ==
    IF idx >= Len(columns) \/ st.result /= None THEN st
    ELSE LET value == record_get(record, At(columns, idx).index)
             data == stored(st, value)
         IN  push_columns(record, columns, idx + 1,
                 IF data.result /= None THEN data
                 ELSE [data EXCEPT !.rows_by_column[idx + 1] =
                                       Append(@, Row(<<>>, <<>>, value))])

(* `for record_result in reader.records()`: the reader yields the record
   results one by one; st holds rows_by_column, the limit, the arena and
   the error or panic that ends the call. *)
RECURSIVE load_delimited_loop(_, _, _, _, _, _)
load_delimited_loop(path, records, columns, overflow_checks, i, st) ==
    IF i >= Len(records) \/ st.result /= None THEN st
    ELSE LET record_result == At(records, i)
             reserved == try_reserve(st.limit[1], record_bytes(record_result.value, columns),
                                     overflow_checks)
         IN  IF ~record_result.ok
             THEN [st EXCEPT !.result =
                      Some(Err(<<Lit("CSV parse error in "), Arg("path", path.display),
                                 Lit(": "), Arg("csv_error", record_result.message)>>))]
             ELSE IF st.limit /= None /\ reserved.panic /= None
             THEN [st EXCEPT !.result = Some(Panicked(reserved.panic[1]))]
             ELSE IF st.limit /= None /\ ~reserved.ret
             THEN load_delimited_loop(path, records, columns, overflow_checks, i + 1, st)
             ELSE load_delimited_loop(path, records, columns, overflow_checks, i + 1,
                      push_columns(record_result.value, columns, 0,
                          [st EXCEPT !.limit = IF st.limit = None THEN None
                                               ELSE Some(reserved.limit)]))

(* load_delimited_columns(arena, path, options, columns, limit): File::open
   gave open, the reader the record results; what the call gives, and the
   limit and the arena afterwards. *)
load_delimited_columns(inner, path, open, records, columns, limit, overflow_checks) ==
    LET file_name == filename_from_path(path)
        returned(st) ==
            IF st.result /= None
            THEN [result |-> st.result[1], limit |-> st.limit, arena |-> st.arena]
            ELSE IF ~file_name.ok
            THEN [result |-> file_name, limit |-> st.limit, arena |-> st.arena]
            ELSE [result |-> Ok([k \in DOMAIN columns |->
                                    Table(<<file_name.value, ".", columns[k].name>>,
                                          st.rows_by_column[k])]),
                  limit |-> st.limit, arena |-> st.arena]
    IN  IF ~open.ok
        THEN [result |-> Err(<<Lit("Failed to read delimited file "),
                               Arg("path", path.display), Lit(": "),
                               Arg("io_error", open.message)>>),
              limit |-> limit, arena |-> inner]
        ELSE returned(load_delimited_loop(path, records, columns, overflow_checks, 0,
                          [rows_by_column |-> [k \in DOMAIN columns |-> <<>>],
                           limit |-> limit, result |-> None, arena |-> inner]))

(* The loaders as a state machine: a file is fixed, by its path and by what
   reading it gives; a loader is called on it once and returns. *)
FastaBytes == {GT, SPACE, LF, CR, 65, 255}

(* Two entries with CRLF ends, a blank line and a description with a
   space; a sequence with a two-byte character, whole and cut. *)
FastaLongInputs ==
    {<<62, 115, 32, 100, 32, 101, 13, 10, 65, 67, 13, 10, 13, 10, 71, 10, 62, 116, 10>>,
     <<62, 115, 10, 195, 169, 10, 65>>,
     <<62, 115, 10, 195, 10, 169>>}

FastaInputs == SeqsUpTo(FastaBytes, MaxFastaLen) \cup FastaLongInputs

(* "x.fa", with the extension "fa". *)
LoadPath == Path("data/x.fa", Some(<<120, 46, 102, 97>>), Some(<<102, 97>>))

IoError == Err("io")

DelimitedFields == {<<97>>, <<98, 99>>}

DelimitedRecords ==
    {Ok(<<f>>) : f \in DelimitedFields}
        \cup {Ok(<<f, <<98, 99>>>>) : f \in DelimitedFields}
        \cup {Err("utf8")}

DelimitedColumns ==
    {<<ColumnSpec("c0", 0)>>,
     <<ColumnSpec("c0", 0), ColumnSpec("c1", 1)>>,
     <<ColumnSpec("c1", 1), ColumnSpec("c5", 5)>>}

(* The limits: none, those ByteLimit::new makes, and one whose fields were
   set so that current is one byte below usize::MAX. *)
DelimitedLimits ==
    {None} \cup {Some(ByteLimit_new(m)) : m \in {0, 2, 3}}
           \cup {Some(ByteLimit(USIZE_MAX, USIZE_MAX - 1))}

(* The build: with the overflow checks of a debug build, or without. *)
OverflowChecks == BOOLEAN

(* The files of a dataset: "a.txt" with the text "hi", "b.FA" and "c"
   with an entry of FASTA, "d.fna" with sequence data and no header, "e"
   that cannot be read, and a path without a file name. *)
DatasetFiles ==
    {[path |-> Path("data/a.txt", Some(<<97, 46, 116, 120, 116>>), Some(<<116, 120, 116>>)),
      read |-> Ok(<<104, 105>>)],
     [path |-> Path("data/b.FA", Some(<<98, 46, 70, 65>>), Some(<<70, 65>>)),
      read |-> Ok(<<62, 115, 10, 65>>)],
     [path |-> Path("data/c", Some(<<99>>), None), read |-> Ok(<<62, 115, 10, 65>>)],
     [path |-> Path("data/d.fna", Some(<<100, 46, 102, 110, 97>>), Some(<<102, 110, 97>>)),
      read |-> Ok(<<65>>)],
     [path |-> Path("data/e", Some(<<101>>), None), read |-> IoError],
     [path |-> Path("data/..", None, None), read |-> Ok(<<104, 105>>)]}

DatasetSources ==
    {Source(f.path, kind, f.read) : f \in DatasetFiles, kind \in {"Text", "Fasta"}}

LoadInputs ==
    {[kind |-> "file", path |-> LoadPath, read |-> Ok(b)] : b \in FastaInputs}
        \cup {[kind |-> "dataset", sources |-> ss] :
                 ss \in SeqsUpTo(DatasetSources, MaxSources)}
        \cup {[kind |-> "file", path |-> LoadPath, read |-> IoError]}
        \cup {[kind |-> "delimited", path |-> LoadPath, open |-> Ok(<<>>),
               records |-> rs, columns |-> cs, limit |-> l, overflow_checks |-> oc] :
                 rs \in SeqsUpTo(DelimitedRecords, MaxRecords),
                 cs \in DelimitedColumns, l \in DelimitedLimits, oc \in OverflowChecks}
        \cup {[kind |-> "delimited", path |-> LoadPath, open |-> IoError,
               records |-> <<>>, columns |-> <<ColumnSpec("c0", 0)>>, limit |-> None,
               overflow_checks |-> FALSE]}

(* The arena the loader is given: new, of a capacity that does not hold
   every input and of one that does. *)
LoadArenaSizes == {3, 64}

LoadArenas ==
    {BumpArena_new(size, Mapped(start_ptr)).arena :
        size \in LoadArenaSizes, start_ptr \in ArenaStarts}

InitLoad ==
    /\ load_input \in LoadInputs
    /\ load_call = NoCall
    /\ arena \in LoadArenas
    /\ arena_log = NoArenaLog
    /\ kernel = "naive"
    /\ CoreIdle
    /\ EngineIdle /\ FmIdle /\ TriIdle

(* A loader was called on the arena and gave r: what it returned, or its
   panic, is kept in load_call and the arena is as the call left it. *)
LoadReturned(op, r) ==
    /\ load_call' = [op |-> op, ret |-> r.result]
    /\ arena' = r.arena
    /\ UNCHANGED <<load_input, arena_log, coreVars, engineVars, fmVars, triVars>>

(* The same, of a call that was given a limit: load_call keeps the limit
   as the call left it. *)
LoadReturnedWithLimit(op, r) ==
    /\ load_call' = [op |-> op, ret |-> [result |-> r.result, limit |-> r.limit]]
    /\ arena' = r.arena
    /\ UNCHANGED <<load_input, arena_log, coreVars, engineVars, fmVars, triVars>>

ParseFastaCall ==
    /\ load_call = NoCall
    /\ load_input.kind = "file"
    /\ load_input.read.ok
    /\ LoadReturned("parse_fasta_into_arena",
                    parse_fasta_into_arena(arena, load_input.read.value))

LoadFastaTableCall ==
    /\ load_call = NoCall
    /\ load_input.kind = "file"
    /\ LoadReturned("load_fasta_table",
                    load_fasta_table(arena, load_input.path, load_input.read))

LoadDelimitedColumnsCall ==
    /\ load_call = NoCall
    /\ load_input.kind = "delimited"
    /\ LoadReturnedWithLimit("load_delimited_columns",
           load_delimited_columns(arena, load_input.path, load_input.open,
                                  load_input.records, load_input.columns,
                                  load_input.limit, load_input.overflow_checks))

LoadTextTableCall ==
    /\ load_call = NoCall
    /\ load_input.kind = "file"
    /\ LoadReturned("load_text_table",
                    load_text_table(arena, load_input.path, load_input.read))

LoadDatasetCall ==
    /\ load_call = NoCall
    /\ load_input.kind = "dataset"
    /\ LoadReturned("load_dataset", load_dataset(arena, load_input.sources))

(* The paths are those of the sources; their kinds are not given. *)
LoadDatasetFromPathsCall ==
    /\ load_call = NoCall
    /\ load_input.kind = "dataset"
    /\ LoadReturned("load_dataset_from_paths",
           load_dataset_from_paths(arena,
               [k \in DOMAIN load_input.sources |->
                   [path |-> load_input.sources[k].path,
                    read |-> load_input.sources[k].read]]))

NextLoad ==
    \/ ParseFastaCall
    \/ LoadFastaTableCall
    \/ LoadTextTableCall
    \/ LoadDatasetCall
    \/ LoadDatasetFromPathsCall
    \/ LoadDelimitedColumnsCall

SpecLoad == InitLoad /\ [][NextLoad]_vars

(* The lines of a FASTA file: the pieces between the line feeds, without a
   trailing carriage return, those that are not empty. *)
StripCR(line) ==
    IF Len(line) > 0 /\ line[Len(line)] = CR THEN SubSeq(line, 1, Len(line) - 1) ELSE line

FastaLines(raw) ==
    LET pieces == split(raw, LF)
    IN  SelectSeq([k \in DOMAIN pieces |-> StripCR(pieces[k])], NonEmpty)

IsHeader(line) == line[1] = GT

(* The entry of the header at place h of the lines: id and description
   around the first space, data from the lines up to the next header. *)
FastaEntryOf(lines, h) ==
    LET header == Tail(lines[h])
        spaces == {k \in DOMAIN header : header[k] = SPACE}
        cut == IF spaces = {} THEN Len(header) + 1
               ELSE CHOOSE k \in spaces : \A j \in spaces : k <= j
        later == {k \in DOMAIN lines : k > h /\ IsHeader(lines[k])}
        next == IF later = {} THEN Len(lines) + 1
                ELSE CHOOSE k \in later : \A j \in later : k <= j
    IN  FastaEntry(SubSeq(header, 1, cut - 1), SubSeq(header, cut + 1, Len(header)),
                   Concat(SubSeq(lines, h + 1, next - 1)))

FastaEntries(raw) ==
    LET lines == FastaLines(raw)
        headers == SelectSeq([k \in DOMAIN lines |-> k], LAMBDA k : IsHeader(lines[k]))
    IN  [j \in DOMAIN headers |-> FastaEntryOf(lines, headers[j])]

DataBeforeHeader(raw) == FastaLines(raw) /= <<>> /\ ~IsHeader(FastaLines(raw)[1])

ParseFastaCalled == load_call.op = "parse_fasta_into_arena"

(* The bytes of the strings of the entries a parse returned. *)
RECURSIVE EntriesBytes(_)
EntriesBytes(entries) ==
    IF Len(entries) = 0 THEN 0
    ELSE Len(Head(entries).id) + Len(Head(entries).desc) + Len(Head(entries).data)
             + EntriesBytes(Tail(entries))

(* What the parser does to the arena: the strings of the entries it
   returns are stored in it, byte by byte; it panics with the arena's
   out-of-memory message only, and never on an input whose header and
   sequence bytes fit the arena. *)
ParseFastaFillsArena ==
    ParseFastaCalled =>
        /\ used(arena) <= capacity(arena)
        /\ (load_call.ret.ok /\ from_utf8_is_ok(load_input.read.value)) =>
               used(arena) = EntriesBytes(load_call.ret.value)
        /\ IsPanic(load_call.ret) =>
               /\ load_call.ret.panic = "Out of Memory"
               /\ Len(load_input.read.value) > capacity(arena)

(* C24: on a FASTA input that is valid UTF-8, parse_fasta_into_arena, when
   the arena holds every string it stores, returns an error if a line that is not empty and does not start with
   '>' comes before the first header line, and otherwise one entry per
   header line, in order: id the header up to its first space, desc the
   rest, data the following non-empty lines up to the next header, joined
   without their line ends. *)
C24_ParseFastaEntries ==
    (ParseFastaCalled /\ ~IsPanic(load_call.ret)
        /\ from_utf8_is_ok(load_input.read.value)) =>
        IF DataBeforeHeader(load_input.read.value)
        THEN ~load_call.ret.ok
        ELSE load_call.ret = Ok(FastaEntries(load_input.read.value))

C24_Witness ==
    /\ ParseFastaCalled
    /\ from_utf8_is_ok(load_input.read.value)
    /\ load_call.ret.ok
    /\ Len(load_call.ret.value) = 2
    /\ load_call.ret.value[1].desc /= <<>>
    /\ Len(load_call.ret.value[1].data) = 3
    /\ load_call.ret.value[2].data = <<>>

(* A loader returned a parse failure: an error that is not the failure to
   open or read the file. *)
MessageHas(message, name) ==
    \E k \in DOMAIN message : "arg" \in DOMAIN message[k] /\ message[k].arg = name

LoadResult ==
    IF load_call.op = "load_delimited_columns" THEN load_call.ret.result ELSE load_call.ret

ParseFailed ==
    /\ load_call.op \in {"load_fasta_table", "load_delimited_columns"}
    /\ ~LoadResult.ok
    /\ ~IsPanic(LoadResult)
    /\ ~MessageHas(LoadResult.message, "io_error")

(* C25: the message of every parse failure of the FASTA and delimited
   loaders holds the file path and the byte offset of the failure; the
   error of the csv reader is printed with its position. *)
C25_ParseFailureNamesPathAndOffset ==
    ParseFailed =>
        /\ MessageHas(LoadResult.message, "path")
        /\ \/ MessageHas(LoadResult.message, "byte_offset")
           \/ MessageHas(LoadResult.message, "csv_error")

(* What the code does: the failures of the delimited loader name the path,
   those of the FASTA loader are the parser's messages as they are. *)
ParseFailureNamesPathUnlessFasta ==
    ParseFailed =>
        IF load_call.op = "load_delimited_columns"
        THEN MessageHas(LoadResult.message, "path")
        ELSE /\ ~MessageHas(LoadResult.message, "path")
             /\ ~MessageHas(LoadResult.message, "byte_offset")

(* The records the reader yields before its first error. *)
RecordsRead ==
    LET records == load_input.records
        errors == {k \in DOMAIN records : ~records[k].ok}
    IN  IF errors = {} THEN records
        ELSE SubSeq(records, 1, (CHOOSE k \in errors : \A j \in errors : k <= j) - 1)

(* The bytes admitted among the first k records, and whether record k is
   admitted: those bytes before it plus its own are within max_bytes. *)
RECURSIVE AdmittedBytes(_)
Admitted(k) ==
    AdmittedBytes(k - 1) + record_bytes(RecordsRead[k].value, load_input.columns)
        <= load_input.limit[1].max_bytes

AdmittedBytes(k) ==
    IF k = 0 THEN 0
    ELSE AdmittedBytes(k - 1)
             + IF Admitted(k) THEN record_bytes(RecordsRead[k].value, load_input.columns)
               ELSE 0

AdmittedRecords == SelectSeq([k \in DOMAIN RecordsRead |-> k], Admitted)

(* load_delimited_columns was called with a limit that has admitted
   nothing yet, and did not panic. *)
LoadedWithLimit ==
    /\ load_call.op = "load_delimited_columns"
    /\ load_input.open.ok
    /\ load_input.limit /= None
    /\ load_input.limit[1].current = 0
    /\ ~IsPanic(load_call.ret.result)

(* C30: load_delimited_columns with a byte limit that has admitted nothing
   yet, in an arena that holds the values, admits a record if and
   only if the bytes of the records admitted before it plus the bytes of
   its selected columns are within max_bytes; a refused record adds no row
   and leaves current as it is, so current ends as the sum of the admitted
   records' bytes, within max_bytes, and every column table holds one row
   per admitted record, in order. *)
C30_ByteLimitAdmission ==
    LoadedWithLimit =>
        /\ load_call.ret.limit[1].current = AdmittedBytes(Len(RecordsRead))
        /\ load_call.ret.limit[1].current <= load_input.limit[1].max_bytes
        /\ load_call.ret.limit[1].max_bytes = load_input.limit[1].max_bytes
        /\ load_call.ret.result.ok =>
              \A c \in DOMAIN load_input.columns :
                  load_call.ret.result.value[c].rows =
                      [j \in DOMAIN AdmittedRecords |->
                          Row(<<>>, <<>>,
                              record_get(RecordsRead[AdmittedRecords[j]].value,
                                         load_input.columns[c].index))]

(* A record is refused and a later, smaller one is admitted. *)
C30_Witness ==
    /\ LoadedWithLimit
    /\ load_call.ret.result.ok
    /\ Len(RecordsRead) = 3
    /\ Admitted(1) /\ ~Admitted(2) /\ Admitted(3)
    /\ load_call.ret.limit[1].current = load_input.limit[1].max_bytes
    /\ Len(load_call.ret.result.value[1].rows) = 2

----------------------------------------------------------------------------
(* Properties of like_match's indices.                                     *)

(* The Literal tokens of a token list, in order. *)
LiteralTokens(tokens) == SelectSeq(tokens, LAMBDA tok : tok.kind = "Literal")

(* The number of Literal tokens among tokens[0..n]. *)
LiteralsBefore(tokens, n) == Len(LiteralTokens(SubSeq(tokens, 1, n)))

(* like_match has been entered and has not yet been left for a new call. *)
InLikeMatch == like_frame.pc /= "idle"

(* C26: a compiled pattern has as many kernel configs and kernel states as
   Literal tokens, the i-th config being the bytes of the i-th Literal;
   after the anchored checks and after every loop iteration of like_match
   state_idx is the number of Literal tokens among tokens[0..t_idx], no
   index into literal_configs is out of bounds, and the config at
   state_idx is the literal about to be checked (token t_idx) or searched
   (the token after an Any at t_idx). *)
C26_StateIdxCountsLiterals ==
    Compiled =>
        LET tokens == like_pattern.tokens
            configs == like_pattern.literal_configs
            lits == LiteralTokens(tokens)
            f == like_frame
        IN /\ Len(configs) = Len(lits)
           /\ Len(like_pattern.literal_states) = Len(lits)
           /\ \A k \in 1..Len(lits) : configs[k] = lits[k].lit
           /\ InLikeMatch =>
                /\ f.pc /= "panic"
                /\ f.t_idx <= Len(tokens)
                /\ f.state_idx = LiteralsBefore(tokens, f.t_idx)
                /\ f.last_wildcard_t_idx /= None =>
                      f.last_wildcard_state_idx
                          = LiteralsBefore(tokens, f.last_wildcard_t_idx[1])
                /\ (f.t_idx < Len(tokens) /\ At(tokens, f.t_idx).kind = "Literal") =>
                      /\ f.state_idx < Len(configs)
                      /\ At(configs, f.state_idx) = At(tokens, f.t_idx).lit
                /\ (f.t_idx + 1 < Len(tokens) /\ At(tokens, f.t_idx) = Any
                      /\ At(tokens, f.t_idx + 1).kind = "Literal") =>
                      /\ f.state_idx < Len(configs)
                      /\ At(configs, f.state_idx) = At(tokens, f.t_idx + 1).lit

(* like_match is in its main loop on a pattern Literal, Any, Literal, with
   the anchored prefix consumed, an Any recorded behind it and the scan
   moved past the first occurrence of the second literal: state_idx is 1
   and points at the second literal. *)
C26_Witness ==
    /\ Compiled
    /\ like_frame.pc = "loop"
    /\ Len(like_pattern.tokens) = 3
    /\ like_pattern.tokens[1].kind = "Literal"
    /\ like_pattern.tokens[2] = Any
    /\ like_pattern.tokens[3].kind = "Literal"
    /\ like_frame.last_wildcard_t_idx = Some(1)
    /\ like_frame.last_wildcard_state_idx = 1
    /\ like_frame.state_idx = 1
    /\ like_frame.t_idx = 2
    /\ like_frame.match_s_idx
          > Len(like_pattern.tokens[1].lit)
              + find_str(kernel, like_pattern.tokens[3].lit,
                         slice_from(like_text, Len(like_pattern.tokens[1].lit)))[1]

(* The number of loop iterations of like_match, from the frame f on, that
   reach the backtracking code with an Any recorded; the count stops once
   it exceeds the length of the text. *)
RECURSIVE backtracks_from(_, _, _, _, _)
backtracks_from(pat, S, t, f, n) ==
    IF n > Len(t) \/ f.pc /= "loop" \/ f.s_idx >= Len(t) THEN n
    ELSE LET g == like_match_forward(pat, S, t, f)
             b == IF g.pc = "backtrack" /\ f.last_wildcard_t_idx /= None THEN 1 ELSE 0
         IN backtracks_from(pat, S, t, like_match_step(pat, S, t, f), n + b)

(* The iterations like_match has left in the worst case: the text still to
   the right of match_s_idx, weighted so that a backtrack outweighs the
   tokens it gives back, plus the tokens not yet consumed. *)
IterationsLeft(f) ==
    (Len(like_text) - f.match_s_idx) * (Len(like_pattern.tokens) + 1)
        + (Len(like_pattern.tokens) - f.t_idx)

(* Every iteration of like_match's main loop consumes a token (t_idx
   advances by one), or backtracks to the token after the last Any with
   match_s_idx strictly larger than before, or returns; so a bounded
   measure falls with every iteration. match_s_idx and s_idx never exceed
   the length of the text, and from any point of a call at most
   |text| - match_s_idx more iterations backtrack, at most |text| in the
   whole call. The closing loop always returns. *)
LikeMatchStepBounded ==
    (Compiled /\ like_frame'.pc /= "idle") =>
        LET f == like_frame
            g == like_frame'
            t == like_text'
        IN /\ g.pc \in {"loop", "done"}
           /\ 0 <= g.match_s_idx
           /\ g.match_s_idx <= g.s_idx
           /\ g.s_idx <= Len(t)
           /\ backtracks_from(like_pattern, kernel, t, g, 0) <= Len(t) - g.match_s_idx
           /\ (f.pc = "loop" /\ f.s_idx < Len(t)) =>
                /\ \/ g.pc = "done"
                   \/ /\ g.t_idx = f.t_idx + 1
                      /\ g.match_s_idx >= f.match_s_idx
                   \/ /\ f.last_wildcard_t_idx /= None
                      /\ g.t_idx = f.last_wildcard_t_idx[1] + 1
                      /\ g.match_s_idx > f.match_s_idx
                /\ g.pc = "loop" =>
                      /\ IterationsLeft(g) < IterationsLeft(f)
                      /\ IterationsLeft(g) >= 0
           /\ (f.pc = "loop" /\ f.s_idx >= Len(t)) => g.pc = "done"

(* C27: like_match terminates on every compiled pattern and every text:
   every iteration of its main loop consumes a token, or backtracks with a
   strictly larger match_s_idx, or returns; match_s_idx and s_idx never
   exceed the length of the text, so that at most |text| iterations
   backtrack. *)
C27_LikeMatchTerminates == [][LikeMatchStepBounded]_vars

(* The same for the kernels that find a literal byte for byte (naive, KMP,
   BM, StdSearch), under which match_s_idx is always the first byte of a
   char. *)
LikeMatchTerminatesOnExactKernels ==
    [][kernel \notin FftKernels => LikeMatchStepBounded]_vars

(* The dumb backtracking has started inside a char and read past the end
   of the text, and like_match goes on with match_s_idx and s_idx beyond
   the text. *)
LikeMatchBeyondText ==
    /\ Compiled
    /\ like_frame.pc = "loop"
    /\ like_frame.match_s_idx > Len(like_text)
    /\ like_frame.s_idx > Len(like_text)

(* The process has been aborted inside like_match. *)
LikeMatchAborted == Compiled /\ like_frame.pc = "abort"

(* like_match has returned from a call on a text of at least three bytes
   in which it backtracked |text| - 1 times. *)
C27_Witness ==
    /\ Compiled
    /\ Matched
    /\ Len(like_text) >= 3
    /\ backtracks_from(like_pattern, kernel, like_text,
                       like_match_begin(like_pattern, kernel, like_text), 0)
          >= Len(like_text) - 1

----------------------------------------------------------------------------
(* occ_at as a state machine: an index is built over a corpus, then        *)
(* occ_at is called once with a rank of its alphabet and a position.       *)
(* Corpora of 127 and 128 bytes make indexes of 128 and 129 positions, so  *)
(* that a stored checkpoint other than the first is read.                  *)

MaxOccTextLen == 3

(* A corpus of n bytes over 'a', 'b', 'c' without a short period. *)
OccLongText(n) ==
    [k \in 1..n |-> 97 + ((k * k * k + (k \div 3) + (k \div 7) * 5 + (k \div 13)) % 3)]

OccLongLens == {checkpoint - 1, checkpoint}

OccInputs ==
    [text : SeqsUpTo({97, 98}, MaxOccTextLen), sentinel : {0, 99},
     separator : {None, Some(97)}]
    \cup {[text |-> OccLongText(n), sentinel |-> 0, separator |-> None] :
             n \in OccLongLens}

InitOcc ==
    /\ fm_input \in OccInputs
    /\ fm = NoFm
    /\ fm_call = NoCall
    /\ kernel = "naive"
    /\ CoreIdle
    /\ EngineIdle /\ ArenaIdle /\ TriIdle

(* self.occ_at(rank, index), as backward_search calls it: rank is a rank of
   the alphabet, index a position from 0 to len(). *)
OccAtCall ==
    /\ fm /= NoFm
    /\ fm.built = "ok"
    /\ fm_call = NoCall
    /\ \E rank \in 0..(Len(fm.counts) - 1), index \in 0..FMIndex_len(fm) :
          fm_call' = [op |-> "occ_at", rank |-> rank, index |-> index,
                      ret |-> occ_at(fm, rank, index)]
    /\ UNCHANGED <<fm_input, fm, coreVars, engineVars, arenaVars, triVars>>

NextOcc ==
    \/ FmNew
    \/ OccAtCall

SpecOcc == InitOcc /\ [][NextOcc]_vars

OccAtCalled == fm_call.op = "occ_at"

(* The number of rank-r symbols in bwt[0..i]. *)
CountInBwt(f, r, i) == Cardinality({k \in 0..(i - 1) : At(f.bwt, k) = r})

(* C28: for every index, every rank r of its alphabet and every position i
   from 0 to N, the length of the indexed text with its sentinel, occ_at(r, i)
   is the number of rank-r symbols in bwt[0..i], also when i is a multiple
   of the checkpoint distance and when i is N; and C[r] + occ_at(r, N) is
   C[r + 1], or N for the last rank. *)
C28_OccAtCountsBwtPrefix ==
    OccAtCalled =>
        LET r == fm_call.rank
            i == fm_call.index
            N == FMIndex_len(fm)
        IN /\ fm_call.ret = CountInBwt(fm, r, i)
           /\ i = N =>
                At(fm.c, r) + fm_call.ret
                    = IF r + 1 < Len(fm.c) THEN At(fm.c, r + 1) ELSE N

(* occ_at was called at the end of an index of exactly one checkpoint
   distance, for a rank that occurs more than once: the count comes whole
   from the second stored checkpoint. *)
C28_Witness ==
    /\ OccAtCalled
    /\ FMIndex_len(fm) = checkpoint
    /\ fm_call.index = checkpoint
    /\ fm_call.ret > 1
    /\ Len(fm.occ) = 2

----------------------------------------------------------------------------
(* The k-mer kernel (crate algos, kmer.rs).  The HashMap from k-mer to its *)
(* positions in the pattern is a function on the k-mers of the pattern;    *)
(* diagonal_counts is a function on the diagonals 0..|text| that holds 0   *)
(* where the HashMap has no entry yet.                                     *)

MaxKmerTextLen == 4
MaxKmerPatLen == 3
MaxKmerK == 3
MaxKmerMinHits == 3

KmerConfig(p, k, min_hits) == [pattern |-> p, k |-> k, min_hits |-> min_hits]

(* KmerSearch::build: every window of k bytes of the pattern is mapped to
   the list of its start positions, in increasing order; no entry when k is
   0 or the pattern is shorter than k. *)
KmerSearch_build(config) ==
    LET p == config.pattern
        k == config.k
        starts == IF k > 0 /\ Len(p) >= k THEN 0..(Len(p) - k) ELSE {}
        window(i) == SubSeq(p, i + 1, i + k)
    IN  [map |-> [kmer \in {window(i) : i \in starts} |->
                     sorted_from_set({i \in starts : window(i) = kmer})],
         k |-> k,
         min_hits |-> config.min_hits]

(* `for &query_pos in query_positions`, from the j-th position on: the
   diagonal that first reaches min_hits, or the counts after the loop. *)
RECURSIVE kmer_query_loop(_, _, _, _, _)
kmer_query_loop(state, text_pos, query_positions, j, diagonal_counts) ==
    IF j >= Len(query_positions)
    THEN [found |-> None, diagonal_counts |-> diagonal_counts]
    ELSE LET diagonal == text_pos - At(query_positions, j)
         IN  IF diagonal < 0
             THEN kmer_query_loop(state, text_pos, query_positions, j + 1, diagonal_counts)
             ELSE LET count == diagonal_counts[diagonal] + 1
                      counted == [diagonal_counts EXCEPT ![diagonal] = count]
                  IN  IF count >= state.min_hits
                      THEN [found |-> Some(diagonal), diagonal_counts |-> counted]
                      ELSE kmer_query_loop(state, text_pos, query_positions, j + 1, counted)

(* `for text_pos in 0..=text.len() - state.k` *)
RECURSIVE kmer_text_loop(_, _, _, _)
kmer_text_loop(state, t, text_pos, diagonal_counts) ==
    IF text_pos > Len(t) - state.k THEN None
    ELSE LET kmer == SubSeq(t, text_pos + 1, text_pos + state.k)
         IN  IF kmer \in DOMAIN state.map
             THEN LET r == kmer_query_loop(state, text_pos, state.map[kmer], 0,
                                           diagonal_counts)
                  IN  IF r.found /= None THEN r.found
                      ELSE kmer_text_loop(state, t, text_pos + 1, r.diagonal_counts)
             ELSE kmer_text_loop(state, t, text_pos + 1, diagonal_counts)

(* KmerSearch::find_bytes(state, text, _pattern) *)
KmerSearch_find_bytes(state, t) ==
    IF DOMAIN state.map = {} \/ Len(t) < state.k THEN None
    ELSE kmer_text_loop(state, t, 0, [d \in 0..Len(t) |-> 0])

(* The bytes of the modelled texts and patterns: 'A' and 'C'. *)
KmerBytes == {65, 67}

InitKmer ==
    /\ text \in SeqsUpTo(KmerBytes, MaxKmerTextLen)
    /\ pattern \in SeqsUpTo(KmerBytes, MaxKmerPatLen)
    /\ kernel = "kmer"
    /\ SearchIdle
    /\ LikeIdle
    /\ ExtIdle

(* KmerSearch::build(KmerConfig { pattern, k, min_hits }) and then
   KmerSearch::find_bytes(&index, text, &[]). *)
Call_KmerSearch_find_bytes ==
    /\ CanCall
    /\ \E k \in 0..MaxKmerK, min_hits \in 0..MaxKmerMinHits :
          call' = [op |-> "KmerSearch::find_bytes", k |-> k, min_hits |-> min_hits,
                   ret |-> KmerSearch_find_bytes(
                               KmerSearch_build(KmerConfig(pattern, k, min_hits)), text)]
    /\ UNCHANGED <<text, pattern, kernel, cursor, results, fa_pc, likeVars, extVars>>

NextKmer == Call_KmerSearch_find_bytes

SpecKmer == InitKmer /\ [][NextKmer]_vars

KmerCalled == call.op = "KmerSearch::find_bytes"

(* text[d..d+|pattern|] == pattern *)
PatternAt(t, p, d) == d + Len(p) <= Len(t) /\ SubSeq(t, d + 1, d + Len(p)) = p

(* C29 as stated: KmerSearch::find_bytes returns Some(d) only for offsets d
   at which the whole pattern occurs in the text; a diagonal that reaches
   min_hits is reported only if it passes a full equality check.  It fails:
   find_bytes reports the first diagonal that reaches min_hits and compares
   nothing else. *)
C29_KmerFindsOnlyOccurrences ==
    (KmerCalled /\ call.ret /= None) => PatternAt(text, pattern, call.ret[1])

(* When min_hits is at least 1 and at least the number of k-mers of the
   pattern, a reported diagonal is an occurrence of the whole pattern. *)
KmerFindsOccurrenceWhenAllKmersNeeded ==
    (/\ KmerCalled
     /\ call.ret /= None
     /\ call.min_hits >= 1
     /\ call.min_hits >= Len(pattern) - call.k + 1) =>
        PatternAt(text, pattern, call.ret[1])

============================================================================
